---- MODULE Spec2Model ----
(***************************************************************************)
(* Model of raptorServ.c: the guide-camera server of the fast guiding      *)
(* loop.  The state is the server_info_t record, the locals of main()'s    *)
(* frame loop, the camera's region of interest, the detached worker        *)
(* threads and the last FITS header written to stdout.                     *)
(*                                                                         *)
(* Units.  Pixel positions that are floats in the source (null_x, null_y,  *)
(* xc, yc) are kept in half pixels, offsets (guide_xoff, guide_yoff) in    *)
(* milli-arcseconds and mechanism angles in nano-radians, so that every    *)
(* quantity is an integer.  frame_rate, a float in Hz, is kept as an exact *)
(* fraction <<numerator, denominator>> in lowest terms, exposure times in  *)
(* tenths of a 40 MHz count (1/400000 ms) and temperatures in millidegrees.*)
(***************************************************************************)
EXTENDS Integers, Sequences, FiniteSets, TLC

(* ---------------- program constants ---------------- *)
SIZE_X == 640
SIZE_Y == 512
GUIDE_SIZE_X == 32
GUIDE_SIZE_Y == 32
MAX_SAVE_COUNT == 1000000
DEFAULT_FRAME_RATE == 50
PIXSCALE == 128
USER_TIMEOUT == 20000
DEFAULT_EXPOSURE_TIME == 4000000
DEFAULT_TEC_SETPOINT == -40000

DEFAULT_DIGITAL_GAIN == 1

LOWGAIN == 0

HIGHGAIN == 1

(* ---------------- bounds of the model ---------------- *)
MaxFrames == 3
MaxSaveArg == 2
MaxHoming == 2

\* No centroid or FWHM fit has cut a region yet
NoSubimage ==
  [by |-> "none", xest |-> 0, yest |-> 0,
   fpix |-> <<0, 0>>, lpix |-> <<0, 0>>, subx |-> 0, suby |-> 0]

\* The seeds calculateCentroid returns on the guide subraster, in half
\* pixels: 0 to GUIDE_SIZE - 1 pixels
SeedsX == 0 .. 2 * (GUIDE_SIZE_X - 1)

SeedsY == 0 .. 2 * (GUIDE_SIZE_Y - 1)

\* Conversion of a float (kept in half pixels) to int: the fraction is
\* dropped, towards zero
FloatToInt(h) == IF h >= 0 THEN h \div 2 ELSE 0 - ((0 - h) \div 2)

\* "lpix[0]=xest+GUIDE_SIZE_X/4-1; if (xest-GUIDE_SIZE_X/4 > 32) lpix[0]=32;"
LastPixel(est, quarter) ==
  IF est - 2 * (GUIDE_SIZE_X \div 4) > 2 * 32
  THEN 32
  ELSE FloatToInt(est + 2 * quarter - 2)

\* "fpix[0]=xest-GUIDE_SIZE_X/4; if (xest-GUIDE_SIZE_X/4 < 0) fpix[0]=0;"
FirstPixel(est, quarter) ==
  IF est - 2 * (GUIDE_SIZE_X \div 4) < 0
  THEN 0
  ELSE FloatToInt(est - 2 * quarter)

\* The region both fits cut out around the seed (xest, yest): first and
\* last pixel and dimensions
SubSubraster(by, xest, yest) ==
  LET fx == FirstPixel(xest, GUIDE_SIZE_X \div 4)
      fy == FirstPixel(yest, GUIDE_SIZE_Y \div 4)
      lx == LastPixel(xest, GUIDE_SIZE_X \div 4)
      ly == LastPixel(yest, GUIDE_SIZE_Y \div 4)
  IN [by |-> by, xest |-> xest, yest |-> yest,
      fpix |-> <<fx, fy>>, lpix |-> <<lx, ly>>,
      subx |-> lx - fx + 1, suby |-> ly - fy + 1]

\* The pixels (i, j) the copy loop reads: "for (i=fpix[0];i<fpix[0]+subx;i++)
\* for (j=fpix[1];j<fpix[1]+suby;j++) subimage[k]=image[j*columns+i]"
PixelsRead(sub) ==
  {<<i, j>> : i \in sub.fpix[1] .. sub.fpix[1] + sub.subx - 1,
              j \in sub.fpix[2] .. sub.fpix[2] + sub.suby - 1}


(* ---------------- input domains ---------------- *)
NoValue == "none"
NoPair == <<>>
NoHeader == [built |-> FALSE]
NoCall == [called |-> FALSE]
NoSession == [frames |-> 0, fwhm |-> 0, centroid |-> 0, check |-> "none"]
RealNull == "real_null"
OnOff == {"ON", "OFF"}
CallResults == {"ok", "fail"}
\* strings are sequences of characters
EmptyString == <<>>
NullStrings == {EmptyString, <<"n", "u", "l", "l">>}
Comments == {EmptyString, <<"n", "u", "l", "l">>, <<"s", "e", "q", "4", "2">>,
             <<"5", "0", "%", "%">>}
SaveArgs == (0 .. MaxSaveArg) \cup {-1, MAX_SAVE_COUNT + 1}
RoiArgs == {<<300, 200>>, <<609, 200>>, <<100, 481>>}
NullArgs == {<<300, 300>>, <<1282, 0>>, <<0, 1026>>}
CentroidsX == {31, 33}
CentroidsY == {33}
AnglesX == {7000}
AnglesY == {0}

\* the value strtod returns for an argument beyond the range of a double
HUGE_VAL == 2147483647

\* arguments of the numeric commands: a decimal number (in the unit of the
\* handler's model), a number beyond the range of a double such as 1e999,
\* and text that is no number; NoArgument stands for a query
NumArg(v) == [kind |-> "num", value |-> v]

OverflowArg == [kind |-> "overflow", value |-> HUGE_VAL]

JunkArg == [kind |-> "junk", value |-> 0]

NoArgument == [kind |-> "none", value |-> 0]

\* camera named in last_cmd when no command of the handler reached it
Unreached == "unreached"

NoCommand == [name |-> "none", arg |-> NoArgument, camera |-> Unreached]

\* FRAMERATE arguments in mHz: -1, 0, 0.04 (a 25 s period), 0.05, 0.055,
\* 33.333, 50, 120 and 200 Hz
FramerateArgs ==
  {NumArg(v) : v \in {-1000, 0, 40, 50, 55, 33333, 50000, 120000, 200000}}
  \cup {OverflowArg, JunkArg}

\* EXPTIME arguments in tenths of a 40 MHz count: -10 ms, 0, 0.00001 ms,
\* 10 ms, 10.0000125 ms and 20 ms
ExptimeArgs ==
  {NumArg(v) : v \in {-4000000, 0, 4, 4000000, 4000005, 8000000}}
  \cup {OverflowArg, JunkArg}

\* TEC arguments in millidegrees: -40.03, -40, -15, 0 and 20 C
TecArgs ==
  {NumArg(v) : v \in {-40030, -40000, -15000, 0, 20000}} \cup {OverflowArg, JunkArg}

\* fh_fits_real_null, kept as text like the numbers atof converts
FitsRealNull == <<"n", "u", "l", "l">>

\* the exposure fields after memset and before any command was parsed
NoExposure ==
  [cargv |-> <<>>, filename |-> EmptyString, ra |-> EmptyString, dec |-> EmptyString,
   equinox |-> <<"0">>, objmag |-> <<"0">>]

\* argument lists of STARTEXP, one text per argument
StartexpArgs ==
  {<<<<"F", "I", "L", "E", "N", "A", "M", "E", "=", "a">>>>,
   <<<<"r", "a", "=", "1">>>>,
   <<<<"f", "i", "l", "e", "n", "a", "m", "e", "=", "a">>, <<"E", "Q", "U", "I", "N", "O", "X", "=", "2", "0", "0", "0", ".", "0">>>>,
   <<<<"f", "i", "l", "e", "n", "a", "m", "e", "=", "a">>, <<"e", "q", "u", "i", "n", "o", "x", "=", ".", "5">>>>,
   <<<<"f", "i", "l", "e", "n", "a", "m", "e", "=", "a">>, <<"o", "b", "j", "m", "a", "g", "=", "1", "e", "+", "5">>>>,
   <<<<"f", "i", "l", "e", "n", "a", "m", "e", "=", "a">>, <<"e", "q", "u", "i", "n", "o", "x", "=", "+", ".">>>>,
   <<<<"f", "i", "l", "e", "n", "a", "m", "e", "=", "a">>, <<"o", "b", "j", "m", "a", "g", "=", "1", "e">>>>,
   <<<<"f", "i", "l", "e", "n", "a", "m", "e", "=", "a">>, <<"o", "b", "j", "m", "a", "g", "=", "x">>>>,
   <<<<"f", "i", "l", "e", "n", "a", "m", "e", "=", "a">>, <<"f", "o", "o", "=", "1">>>>,
   <<<<"r", "a", "=", "1">>, <<"f", "i", "l", "e", "n", "a", "m", "e", "=", "b">>, <<"d", "e", "c", "=", "-", "2">>, <<"o", "b", "j", "m", "a", "g", "=", "-", "1", "2", ".", "5", "e", "-", "1">>>>,
   <<<<"e", "q", "u", "i", "n", "o", "x", "=">>, <<"f", "i", "l", "e", "n", "a", "m", "e", "=", "a">>>>,
   <<<<"f", "i", "l", "e", "n", "a", "m", "e", "=", "a">>, <<"e", "q", "u", "i", "n", "o", "x", "=", "2", "e", "3">>, <<"o", "b", "j", "m", "a", "g", "=", "7">>>>,
   <<<<"F", "i", "l", "e", "N", "a", "m", "e", "=", "c">>, <<"R", "A", "=", "1", "2", ":", "0", "0">>>>,
   <<<<"d", "e", "c", "=", "+", "1">>, <<"o", "b", "j", "m", "a", "g", "=", "3", ".">>>>}

VARIABLES
  pc,                   \* position of the main thread in main()'s for(;;) loop
  exit_code,            \* status passed to exit(), NoValue while running
  fh_fits_string_null,  \* libfh's null string, fixed when the program is linked
  video_on, guide_on, isu_on, serv_done,
  image_width, image_height,
  win_x0, win_y0, guide_x0, guide_y0,
  null_x, null_y,
  guide_xoff, guide_yoff,
  isu_mrad_x_delta_setup, isu_mrad_y_delta_setup,
  isu_mrad_x_status, isu_mrad_y_status,
  frame_rate,
  fits_comment, frame_sequence, frame_save_count,
  first_done_flag,
  pdv_p,                \* TRUE iff serv_info->pdv_p is not NULL
  last_video_on_state, last_guide_on_state,
  xc, yc,               \* centroid of the image returned by pdv_wait_image
  thread_data,          \* the one thdata local of main()
  roi_enabled, roi_x0, roi_y0,   \* region of interest held by the camera
  in_flight,            \* images started and not yet returned
  isu_homed,            \* the mechanism is homed
  homing,               \* running home_isu_thread workers
  slope_workers,        \* spawned set_analog_slope_thread workers that have not run yet
  slope_call,           \* last call of set_analog_slope
  hdr,                  \* last header written to stdout
  frames,               \* number of start_image calls so far
  moves, writes,        \* actuator moves and write attempts of the current frame
  reply,                \* reply line of the command being answered
  last_null, last_roi,  \* arguments of the last accepted NULL and ROI, while in force
  armed_n, armed_c, since_save,  \* last accepted SAVE and headers built since
  guide_session,        \* frames, FWHM runs and centroid runs of the current guide session
  cam_size,             \* raster the camera is configured with, fixed before the program starts
  errno,                \* C library error indicator, as far as the handlers test it
  exposure_time, tec_setpoint, exp_on,   \* further fields of the state record
  cam_regs,             \* registers of the camera behind the serial link
  serial_sent,          \* commands sent over the serial link by the last handler
  last_cmd,             \* the operator command handled last and its argument
  guider_config,        \* contents of the guider configuration file
  exp_info,             \* cargv and the exposure fields of the state record
  subimage              \* seed and sub-subraster of the last centroid or FWHM fit

serv_vars == <<video_on, guide_on, isu_on, serv_done, image_width, image_height,
               win_x0, win_y0, guide_x0, guide_y0, null_x, null_y,
               guide_xoff, guide_yoff,
               isu_mrad_x_delta_setup, isu_mrad_y_delta_setup,
               isu_mrad_x_status, isu_mrad_y_status, frame_rate,
               fits_comment, frame_sequence, frame_save_count,
               first_done_flag, pdv_p>>

main_vars == <<pc, exit_code, last_video_on_state, last_guide_on_state,
               xc, yc, thread_data>>

cam_vars == <<roi_enabled, roi_x0, roi_y0, in_flight>>

isu_vars == <<isu_homed, homing, slope_workers, slope_call>>

obs_vars == <<hdr, frames, moves, writes, reply, last_null, last_roi,
              armed_n, armed_c, since_save>>

codec_vars == <<errno, exposure_time, tec_setpoint, exp_on, cam_regs, serial_sent,
                last_cmd, guider_config, exp_info>>

vars == <<serv_vars, main_vars, cam_vars, isu_vars, obs_vars, fh_fits_string_null,
          guide_session, cam_size, codec_vars, subimage>>

(* ---------------- the camera codec: bytes and numbers ---------------- *)
\* a ^ b on unsigned values
RECURSIVE XorByte(_, _)
XorByte(a, b) ==
  IF a = 0 /\ b = 0 THEN 0
  ELSE (((a % 2) + (b % 2)) % 2) + 2 * XorByte(a \div 2, b \div 2)

\* XOR of all the bytes of a sequence
RECURSIVE XorAll(_)
XorAll(bytes) ==
  IF bytes = <<>> THEN 0 ELSE XorByte(Head(bytes), XorAll(Tail(bytes)))

\* "%08lx" followed by the four two-digit slices at offsets 0, 2, 4, 6 and
\* strtoul(.., 16) of each: the four bytes of a count below 2^32, most
\* significant first
HexBytes4(count) ==
  <<((count \div 16777216) % 256), ((count \div 65536) % 256),
    ((count \div 256) % 256), (count % 256)>>

\* "%04lx" followed by the slices at offsets 0 and 2
HexBytes2(count) == <<((count \div 256) % 256), (count % 256)>>

\* strtoul(.., 16) of the reply tokens put end to end
RECURSIVE HexValue(_)
HexValue(bytes) ==
  IF bytes = <<>> THEN 0
  ELSE bytes[Len(bytes)] + 256 * HexValue(SubSeq(bytes, 1, Len(bytes) - 1))

\* Schoolbook division of a number given by its base-256 digits (most
\* significant first) by d: the digits of the quotient
RECURSIVE LongDiv(_, _, _)
LongDiv(digits, d, carry) ==
  IF digits = <<>> THEN <<>>
  ELSE LET n == carry * 256 + Head(digits)
       IN <<n \div d>> \o LongDiv(Tail(digits), d, n % d)

RECURSIVE GCD(_, _)
GCD(a, b) == IF b = 0 THEN a ELSE GCD(b, a % b)

\* the fraction n/d in lowest terms
Ratio(n, d) == LET g == GCD(n, d) IN <<n \div g, d \div g>>

\* a whole number of Hz
Hz(n) == <<n, 1>>

\* comparisons of a fraction with whole numbers, without products that
\* leave the 32-bit range
RateIsZero(r) == r[1] = 0

RateAtMost(r, k) ==
  (r[1] \div r[2] < k) \/ ((r[1] \div r[2] = k) /\ ((r[1] % r[2]) = 0))

\* 1e3 / r > USER_TIMEOUT, for r > 0
PeriodTooLong(r) == r[1] <= (r[2] - 1) \div (USER_TIMEOUT \div 1000)

\* a/b <= c/d for fractions of non-negative numbers, by comparing their
\* continued-fraction expansions
RECURSIVE FracLeq(_, _, _, _)
FracLeq(a, b, c, d) ==
  IF a \div b # c \div d THEN a \div b < c \div d
  ELSE IF (a % b) = 0 THEN TRUE
  ELSE IF (c % d) = 0 THEN FALSE
  ELSE FracLeq(d, c % d, b, a % b)

\* 40e8 as base-256 digits (0xEE6B2800)
FortyE8 == <<238, 107, 40, 0>>

\* setGuiderFrameRate: the four bytes of
\* (unsigned long)(40e8 / (unsigned long)(count * 100)), most significant
\* first, for a rate given in mHz.  count * 100 is cut to a whole number
\* before the division.  The callers pass rates of at least 0.05 Hz.
FrameRateBytes(mhz) == LongDiv(FortyE8, mhz \div 10, 0)

\* "exptime *= 40e3" followed by the conversion of the double to the
\* unsigned long parameter of setGuiderExptime: the fraction is dropped
ExptimeCount(units) == units \div 10

\* setGuiderTECPoint: "slope = (dac40d - dac0d) / (40)" on unsigned
\* integers, "count = temp * slope + co" and the conversion of count to
\* unsigned long, for a temperature in millidegrees that gives a count of
\* 0 or more
TECPointCount(temp, cal) ==
  (temp * ((cal.dac40 - cal.dac0) \div 40) + cal.dac0 * 1000) \div 1000

\* getGuiderTECPoint: "slope = 40.0 / (dac40d - dac0d)", "co = -(slope *
\* dac0d)" and "slope * value + co", in millidegrees (rounded down)
TECPointOfCount(value, cal) ==
  (40000 * (value - cal.dac0)) \div (cal.dac40 - cal.dac0)

\* DAC counts of the manufacturing block at 0 C and at 40 C
DefaultCalibration == [dac0 |-> 2000, dac40 |-> 2800]

\* Manufacturing blocks of other cameras: a DAC span that is no multiple
\* of 40 and a narrow one
Calibrations ==
  {DefaultCalibration, [dac0 |-> 2000, dac40 |-> 2790], [dac0 |-> 1000, dac40 |-> 1200]}

\* The camera registers once main() has written its defaults: gain mode
\* (register f2), TEC set point, exposure time and frame rate
CameraStarted(cal) ==
  [frame_count |-> HexValue(FrameRateBytes(DEFAULT_FRAME_RATE * 1000)),
   exp_count |-> ExptimeCount(DEFAULT_EXPOSURE_TIME),
   tec_count |-> TECPointCount(DEFAULT_TEC_SETPOINT, cal),
   gain_mode |-> 6,
   dac0 |-> cal.dac0, dac40 |-> cal.dac40]

(* ---------------- loadGuiderConfiguration ---------------- *)
\* The keys of the guider configuration file
ConfigKeys == {"guide_x0", "guide_y0", "null_x", "null_y"}

\* The configuration file of a working installation (null positions in
\* half pixels): the keys it has a line for, the numbers written after
\* them, the keys followed by nothing, the keys followed by text that is
\* no number, and whether it also holds a line with an unknown key and a
\* line without "="
DefaultConfig ==
  [present |-> ConfigKeys, guide_x0 |-> 100, guide_y0 |-> 200,
   null_x |-> 231, null_y |-> 431,
   empty |-> {}, garbled |-> {}, other_lines |-> FALSE]

\* Configuration files: the working one, a null y of 600 and of 641
\* pixels, a guide raster starting past the last column that can hold
\* it, and a file without the null x key
GuiderConfigs ==
  { DefaultConfig,
    [DefaultConfig EXCEPT !.null_y = 1200],
    [DefaultConfig EXCEPT !.null_y = 1282],
    [DefaultConfig EXCEPT !.guide_x0 = 609],
    [DefaultConfig EXCEPT !.present = ConfigKeys \ {"null_x"}] }

\* strtol and strtof on the text after "=": with nothing to convert they
\* return 0
ConfigNumber(cfg, key) == IF key \in cfg.empty \cup cfg.garbled THEN 0 ELSE cfg[key]

\* "(*stop_at != '\0')": the conversion stopped before the end of the
\* text; after an empty text it stops at its end
ConfigInvalidArgument(cfg, key) == key \in cfg.garbled

\* Configuration files met at start-up: those above, a file with further
\* lines, files with a value that is no number or is left out, and a null
\* x of 641 pixels
StartupConfigs ==
  GuiderConfigs \cup
  { [DefaultConfig EXCEPT !.other_lines = TRUE],
    [DefaultConfig EXCEPT !.garbled = {"guide_y0"}],
    [DefaultConfig EXCEPT !.garbled = {"null_y"}],
    [DefaultConfig EXCEPT !.empty = {"null_x"}],
    [DefaultConfig EXCEPT !.null_x = 1282],
    [DefaultConfig EXCEPT !.guide_y0 = 481],
    [DefaultConfig EXCEPT !.present = {}] }

\* "Default the fields that will be read from the file to be invalid
\* values": -1, which is -2 half pixels for the null position
ConfigField(cfg, key) ==
  IF key \in cfg.present THEN ConfigNumber(cfg, key)
  ELSE IF key \in {"null_x", "null_y"} THEN -2 ELSE -1

\* The range tests applied to the values read from the file
ConfigGuideX0OutOfRange(v) == v < 0 \/ v > SIZE_X - GUIDE_SIZE_X

ConfigGuideY0OutOfRange(v) == v < 0 \/ v > SIZE_Y - GUIDE_SIZE_Y

ConfigNullXOutOfRange(v) == v < 0 \/ v > 2 * SIZE_X

ConfigNullYOutOfRange(v) == v < 0 \/ v > 2 * SIZE_X

\* loadGuiderConfiguration: the status returned and the fields stored
LoadGuiderConfiguration(cfg) ==
  LET gx == ConfigField(cfg, "guide_x0")
      gy == ConfigField(cfg, "guide_y0")
      nx == ConfigField(cfg, "null_x")
      ny == ConfigField(cfg, "null_y")
      rejected == \/ ("guide_x0" \in cfg.present /\ ConfigGuideX0OutOfRange(gx))
                  \/ ("guide_y0" \in cfg.present /\ ConfigGuideY0OutOfRange(gy))
                  \/ ("null_x" \in cfg.present /\ ConfigNullXOutOfRange(nx))
                  \/ ("null_y" \in cfg.present /\ ConfigNullYOutOfRange(ny))
                  \/ \E key \in cfg.present : ConfigInvalidArgument(cfg, key)
      missing == gx = -1 \/ gy = -1 \/ nx = -2 \/ ny = -2
  IN [status |-> IF rejected \/ missing THEN "FAIL" ELSE "PASS",
      guide_x0 |-> gx, guide_y0 |-> gy, null_x |-> nx, null_y |-> ny]

\* main() goes on only when loadGuiderConfiguration returned PASS
ConfigLoaded(cfg) ==
  LET loaded == LoadGuiderConfiguration(cfg)
  IN /\ loaded.status = "PASS"
     /\ guide_x0 = loaded.guide_x0 /\ guide_y0 = loaded.guide_y0
     /\ null_x = loaded.null_x /\ null_y = loaded.null_y
     /\ guider_config = cfg

(* ---------------- state after initialisation ---------------- *)
\* main() up to "Ready to answer requests": memset of serv_info,
\* loadGuiderConfiguration, default frame rate.
InitFields ==
  /\ exit_code = NoValue
  /\ fh_fits_string_null \in NullStrings
  /\ video_on = FALSE /\ guide_on = FALSE /\ isu_on = FALSE /\ serv_done = FALSE
  /\ image_width = 0 /\ image_height = 0
  /\ win_x0 = 0 /\ win_y0 = 0
  /\ guide_xoff = 0 /\ guide_yoff = 0
  /\ isu_mrad_x_delta_setup = 0 /\ isu_mrad_y_delta_setup = 0
  /\ isu_mrad_x_status = 0 /\ isu_mrad_y_status = 0
  /\ exp_on = FALSE
  /\ errno = "none"
  /\ serial_sent = <<>>
  /\ last_cmd = NoCommand
  /\ exp_info = NoExposure
  /\ fits_comment = EmptyString /\ frame_sequence = 0 /\ frame_save_count = 0
  /\ first_done_flag = 0
  /\ pdv_p = FALSE
  /\ last_video_on_state = FALSE /\ last_guide_on_state = FALSE
  /\ xc = 0 /\ yc = 0
  /\ thread_data = <<Hz(0), 0, 0, 0, 0>>
  /\ roi_enabled = FALSE /\ roi_x0 = 0 /\ roi_y0 = 0
  /\ in_flight = 0
  /\ isu_homed = FALSE
  /\ homing = 0
  /\ slope_workers = {}
  /\ slope_call = NoCall
  /\ hdr = NoHeader
  /\ frames = 0 /\ moves = 0 /\ writes = 0
  /\ reply = NoValue
  /\ last_null = NoPair /\ last_roi = NoPair
  /\ armed_n = 0 /\ armed_c = EmptyString /\ since_save = 0
  /\ guide_session = NoSession

\* The state when main() is ready to answer requests: the defaults it has
\* written to the camera are cached
InitState ==
  /\ pc = "poll"
  /\ frame_rate = Hz(DEFAULT_FRAME_RATE)
  /\ exposure_time = DEFAULT_EXPOSURE_TIME
  /\ tec_setpoint = DEFAULT_TEC_SETPOINT
  /\ InitFields

\* The rasters a camera configuration can give the channel: the full
\* detector, or a degenerate one (no valid width, or neither dimension)
CamSizes == {<<SIZE_X, SIZE_Y>>, <<1, SIZE_Y>>, <<1, 1>>}

\* The program started on a working installation: camera configured with
\* the full raster, working guider configuration file
Init ==
  /\ InitState
  /\ ConfigLoaded(DefaultConfig)
  /\ cam_size = <<SIZE_X, SIZE_Y>>
  /\ subimage = NoSubimage
  /\ cam_regs = CameraStarted(DefaultCalibration)

\* The program started on a camera with any configuration
InitAnyCamera ==
  /\ InitState
  /\ ConfigLoaded(DefaultConfig)
  /\ cam_size \in CamSizes
  /\ subimage = NoSubimage
  /\ cam_regs = CameraStarted(DefaultCalibration)

\* The program started with any guider configuration file that
\* loadGuiderConfiguration accepts
InitAnyConfig ==
  /\ InitState
  /\ \E cfg \in GuiderConfigs : ConfigLoaded(cfg)
  /\ cam_size = <<SIZE_X, SIZE_Y>>
  /\ subimage = NoSubimage
  /\ cam_regs = CameraStarted(DefaultCalibration)

\* What register f2 of the camera can hold: low gain, high gain, and a
\* value that is neither
GainRegisterValues == {0, 2, 6}

\* main() after the memset of serv_info and before
\* loadGuiderConfiguration, with any configuration file on disk and the
\* camera as an earlier run of the server left it, in any gain mode
InitBoot ==
  /\ pc = "boot"
  /\ frame_rate = Hz(0) /\ exposure_time = 0 /\ tec_setpoint = 0
  /\ InitFields
  /\ guider_config \in StartupConfigs
  /\ guide_x0 = 0 /\ guide_y0 = 0 /\ null_x = 0 /\ null_y = 0
  /\ cam_size = <<SIZE_X, SIZE_Y>>
  /\ subimage = NoSubimage
  /\ \E f2 \in GainRegisterValues :
       cam_regs = [CameraStarted(DefaultCalibration) EXCEPT !.gain_mode = f2]

\* The program started on a camera with any manufacturing calibration
InitAnyCalibration ==
  /\ InitState
  /\ ConfigLoaded(DefaultConfig)
  /\ cam_size = <<SIZE_X, SIZE_Y>>
  /\ subimage = NoSubimage
  /\ \E cal \in Calibrations : cam_regs = CameraStarted(cal)

(* ---------------- helpers shared by the handlers ---------------- *)
\* A call into the frame-grabber library through serv_info->pdv_p.  With a
\* NULL handle the library dereferences the pointer: the call either
\* reports a failure or kills the process.
PdvCallResults(handle) == IF handle THEN {"ok", "fail"} ELSE {"fail", "crash"}

SaveCountValid(n) == ~(n < 0 \/ n > MAX_SAVE_COUNT)

\* null positions are in half pixels
NullInRange(x, y) == ~(x < 0 \/ x > 2 * SIZE_X \/ y < 0 \/ y > 2 * SIZE_Y)

RoiInRange(x, y) == ~((x < 0) \/ (x > SIZE_X - GUIDE_SIZE_X) \/
                      (y < 0) \/ (y > SIZE_Y - GUIDE_SIZE_Y))

\* "if we are currently in the subraster mode": the source tests
\* image_width against both guide sizes
RoiSubrasterMode(w, h) == (w = GUIDE_SIZE_X) /\ (w = GUIDE_SIZE_Y)

Crashed ==
  /\ pc' = "exited"
  /\ exit_code' = "crash"

\* The status the process ends with when exit(code) is called once
\* atexit(cleanup) is registered: cleanup itself calls exit(EXIT_SUCCESS),
\* which is undefined inside an exit handler; the process ends with the
\* status of the outer call or with that of the nested one
AtExitStatus(code) == {code, "success"}

\* Variant: a fatal condition is logged and the loop carries on
Exit_ignored(code) ==
  /\ pc' = "write"
  /\ exit_code' = exit_code

\* exit(code), followed by the handlers registered with atexit
Exit(code) ==
  /\ pc' = "exited"
  /\ exit_code' \in AtExitStatus(code)

\* sprintf(buffer, ...): the reply line handed back to the socket library
Reply(text) == reply' = text

\* Variant: the socket is read on a thread of its own, so a command can be
\* dispatched to clientReceive at any point of the frame loop
ServingCommands_threaded == pc # "exited"

\* clientReceive is a hook of sockserv_run: commands are dispatched only
\* while the main thread is inside the poll at the top of the loop
ServingCommands == pc = "poll"

\* The reply lines of the operator commands as sprintf lays them out: the
\* leading character and the words after it
ReplyLine ==
  (". ON" :> <<".", "ON">>) @@
  (". OFF" :> <<".", "OFF">>) @@
  ("! OFF" :> <<"!", "OFF">>) @@
  ("! Invalid video mode" :> <<"!", "Invalid", "video", "mode">>) @@
  (". GUIDE ON" :> <<".", "GUIDE", "ON">>) @@
  (". GUIDE OFF" :> <<".", "GUIDE", "OFF">>) @@
  ("! GUIDE unable to reset image ROI"
     :> <<"!", "GUIDE", "unable", "to", "reset", "image", "ROI">>) @@
  ("! GUIDE unable to set image ROI"
     :> <<"!", "GUIDE", "unable", "to", "set", "image", "ROI">>) @@
  ("! GUIDE set ROI failed" :> <<"!", "GUIDE", "set", "ROI", "failed">>) @@
  (". SAVE" :> <<".", "SAVE">>) @@
  ("! SAVE Invalid Argument Specified"
     :> <<"!", "SAVE", "Invalid", "Argument", "Specified">>) @@
  (". NULL" :> <<".", "NULL">>) @@
  ("! NULL NULL position out of range"
     :> <<"!", "NULL", "NULL", "position", "out", "of", "range">>) @@
  ("! Invalid ROI command. Arguments are out of range"
     :> <<"!", "Invalid", "ROI", "command.", "Arguments", "are", "out", "of", "range">>) @@
  ("! ROI unable to set image ROI"
     :> <<"!", "ROI", "unable", "to", "set", "image", "ROI">>) @@
  ("! ROI set ROI failed" :> <<"!", "ROI", "set", "ROI", "failed">>)

(* ---------------- clientReceive: one action per command ---------------- *)
\* VIDEO ON|OFF
VideoCmd ==
  /\ ServingCommands
  /\ \E arg \in OnOff \cup {"BAD"} :
       /\ video_on' = (IF arg = "ON" THEN TRUE ELSE IF arg = "OFF" THEN FALSE ELSE video_on)
       /\ Reply(IF arg = "ON" THEN ". ON"
                     ELSE IF arg = "OFF" THEN ". OFF" ELSE "! Invalid video mode")
  /\ UNCHANGED <<guide_on, isu_on, serv_done, image_width, image_height,
                 win_x0, win_y0, guide_x0, guide_y0, null_x, null_y,
                 guide_xoff, guide_yoff,
                 isu_mrad_x_delta_setup, isu_mrad_y_delta_setup,
                 isu_mrad_x_status, isu_mrad_y_status, frame_rate,
                 fits_comment, frame_sequence, frame_save_count,
                 first_done_flag, pdv_p>>
  /\ UNCHANGED <<main_vars, cam_vars, isu_vars, fh_fits_string_null>>
  /\ UNCHANGED <<hdr, frames, moves, writes, last_null, last_roi, armed_n, armed_c, since_save>>
  /\ UNCHANGED guide_session
  /\ UNCHANGED <<cam_size, subimage>>
  /\ UNCHANGED codec_vars

\* GUIDE OFF: the window and the image size are stored first, then the
\* region of interest is disabled on the camera
GuideOffCmd ==
  /\ ServingCommands
  /\ win_x0' = 0
  /\ win_y0' = 0
  /\ image_width' = SIZE_X
  /\ image_height' = SIZE_Y
  /\ \E r \in PdvCallResults(pdv_p) :
       \/ /\ r = "crash"
          /\ Crashed
          /\ UNCHANGED <<guide_on, first_done_flag, roi_enabled, reply>>
       \/ /\ r = "fail"
          /\ Reply("! GUIDE unable to reset image ROI")
          /\ UNCHANGED <<guide_on, first_done_flag, roi_enabled, pc, exit_code>>
       \/ /\ r = "ok"
          /\ roi_enabled' = FALSE
          /\ guide_on' = FALSE
          /\ first_done_flag' = 0
          /\ Reply(". GUIDE OFF")
          /\ UNCHANGED <<pc, exit_code>>
  /\ UNCHANGED <<video_on, isu_on, serv_done, guide_x0, guide_y0, null_x, null_y,
                 guide_xoff, guide_yoff,
                 isu_mrad_x_delta_setup, isu_mrad_y_delta_setup,
                 isu_mrad_x_status, isu_mrad_y_status, frame_rate,
                 fits_comment, frame_sequence, frame_save_count, pdv_p>>
  /\ UNCHANGED <<last_video_on_state, last_guide_on_state, xc, yc, thread_data>>
  /\ UNCHANGED <<roi_x0, roi_y0, in_flight, isu_vars, fh_fits_string_null>>
  /\ UNCHANGED <<hdr, frames, moves, writes, last_null, last_roi, armed_n, armed_c, since_save>>
  /\ UNCHANGED guide_session
  /\ UNCHANGED <<cam_size, subimage>>
  /\ UNCHANGED codec_vars

\* GUIDE ON: the window and the image size are stored first, then the
\* region of interest is set and enabled on the camera
GuideOnCmd ==
  /\ ServingCommands
  /\ win_x0' = guide_x0
  /\ win_y0' = guide_y0
  /\ image_width' = GUIDE_SIZE_X
  /\ image_height' = GUIDE_SIZE_Y
  /\ \E r1 \in PdvCallResults(pdv_p), r2 \in CallResults :
       \/ /\ r1 = "crash"
          /\ Crashed
          /\ UNCHANGED <<guide_on, roi_enabled, roi_x0, roi_y0, reply, guide_session>>
       \/ /\ r1 = "fail"
          /\ Reply("! GUIDE unable to set image ROI")
          /\ UNCHANGED <<guide_on, roi_enabled, roi_x0, roi_y0, pc, exit_code, guide_session>>
       \/ /\ r1 = "ok" /\ r2 = "fail"
          /\ roi_x0' = guide_x0
          /\ roi_y0' = guide_y0
          /\ Reply("! GUIDE set ROI failed")
          /\ UNCHANGED <<guide_on, roi_enabled, pc, exit_code, guide_session>>
       \/ /\ r1 = "ok" /\ r2 = "ok"
          /\ roi_x0' = guide_x0
          /\ roi_y0' = guide_y0
          /\ roi_enabled' = TRUE
          /\ guide_on' = TRUE
          /\ guide_session' = (IF guide_on = TRUE THEN guide_session ELSE NoSession)
          /\ Reply(". GUIDE ON")
          /\ UNCHANGED <<pc, exit_code>>
  /\ UNCHANGED <<video_on, isu_on, serv_done, guide_x0, guide_y0, null_x, null_y,
                 guide_xoff, guide_yoff,
                 isu_mrad_x_delta_setup, isu_mrad_y_delta_setup,
                 isu_mrad_x_status, isu_mrad_y_status, frame_rate,
                 fits_comment, frame_sequence, frame_save_count,
                 first_done_flag, pdv_p>>
  /\ UNCHANGED <<last_video_on_state, last_guide_on_state, xc, yc, thread_data>>
  /\ UNCHANGED <<in_flight, isu_vars, fh_fits_string_null>>
  /\ UNCHANGED <<hdr, frames, moves, writes, last_null, last_roi, armed_n, armed_c, since_save>>
  /\ UNCHANGED <<cam_size, subimage>>
  /\ UNCHANGED codec_vars

\* sprintf(dest, fmt) with no further arguments: "%%" is written as "%",
\* every other character is copied
RECURSIVE Sprintf(_)
Sprintf(fmt) ==
  IF fmt = EmptyString THEN EmptyString
  ELSE IF Head(fmt) = "%" /\ Len(fmt) >= 2 /\ fmt[2] = "%"
       THEN <<"%">> \o Sprintf(SubSeq(fmt, 3, Len(fmt)))
       ELSE <<Head(fmt)>> \o Sprintf(Tail(fmt))

\* SAVE n comment
SaveCmd ==
  /\ ServingCommands
  /\ \E n \in SaveArgs, c \in Comments :
       IF ~SaveCountValid(n)
       THEN /\ Reply("! SAVE Invalid Argument Specified")
            /\ UNCHANGED <<fits_comment, frame_sequence, frame_save_count,
                           armed_n, armed_c, since_save>>
       ELSE /\ fits_comment' = (IF n = 0 THEN EmptyString ELSE Sprintf(c))
            /\ frame_save_count' = n
            /\ frame_sequence' = 0
            /\ Reply(". SAVE")
            /\ armed_n' = n
            /\ armed_c' = c
            /\ since_save' = 0
  /\ UNCHANGED <<video_on, guide_on, isu_on, serv_done, image_width, image_height,
                 win_x0, win_y0, guide_x0, guide_y0, null_x, null_y,
                 guide_xoff, guide_yoff,
                 isu_mrad_x_delta_setup, isu_mrad_y_delta_setup,
                 isu_mrad_x_status, isu_mrad_y_status, frame_rate,
                 first_done_flag, pdv_p>>
  /\ UNCHANGED <<main_vars, cam_vars, isu_vars, fh_fits_string_null>>
  /\ UNCHANGED <<hdr, frames, moves, writes, last_null, last_roi>>
  /\ UNCHANGED guide_session
  /\ UNCHANGED <<cam_size, subimage>>
  /\ UNCHANGED codec_vars

\* NULL x y
NullCmd ==
  /\ ServingCommands
  /\ \E a \in NullArgs :
       IF ~NullInRange(a[1], a[2])
       THEN /\ Reply("! NULL NULL position out of range")
            /\ UNCHANGED <<null_x, null_y, last_null>>
       ELSE /\ null_x' = a[1]
            /\ null_y' = a[2]
            /\ last_null' = a
            /\ Reply(". NULL")
  /\ UNCHANGED <<video_on, guide_on, isu_on, serv_done, image_width, image_height,
                 win_x0, win_y0, guide_x0, guide_y0,
                 guide_xoff, guide_yoff,
                 isu_mrad_x_delta_setup, isu_mrad_y_delta_setup,
                 isu_mrad_x_status, isu_mrad_y_status, frame_rate,
                 fits_comment, frame_sequence, frame_save_count,
                 first_done_flag, pdv_p>>
  /\ UNCHANGED <<main_vars, cam_vars, isu_vars, fh_fits_string_null>>
  /\ UNCHANGED <<hdr, frames, moves, writes, last_roi, armed_n, armed_c, since_save>>
  /\ UNCHANGED guide_session
  /\ UNCHANGED <<cam_size, subimage>>
  /\ UNCHANGED codec_vars

\* ROI x y: the new origin is stored first and applied to the camera when
\* the image has the guide size
RoiCmd ==
  /\ ServingCommands
  /\ \E a \in RoiArgs, r1 \in PdvCallResults(pdv_p), r2 \in CallResults :
       IF ~RoiInRange(a[1], a[2])
       THEN /\ Reply("! Invalid ROI command. Arguments are out of range")
            /\ UNCHANGED <<guide_x0, guide_y0, roi_enabled, roi_x0, roi_y0, pc, exit_code, last_roi>>
       ELSE /\ guide_x0' = a[1]
            /\ guide_y0' = a[2]
            /\ IF ~RoiSubrasterMode(image_width, image_height)
               THEN /\ Reply(". NULL")
                    /\ last_roi' = a
                    /\ UNCHANGED <<roi_enabled, roi_x0, roi_y0, pc, exit_code>>
               ELSE \/ /\ r1 = "crash"
                       /\ Crashed
                       /\ UNCHANGED <<roi_enabled, roi_x0, roi_y0, reply, last_roi>>
                    \/ /\ r1 = "fail"
                       /\ Reply("! ROI unable to set image ROI")
                       /\ last_roi' = NoPair
                       /\ UNCHANGED <<roi_enabled, roi_x0, roi_y0, pc, exit_code>>
                    \/ /\ r1 = "ok" /\ r2 = "fail"
                       /\ roi_x0' = a[1]
                       /\ roi_y0' = a[2]
                       /\ Reply("! ROI set ROI failed")
                       /\ last_roi' = NoPair
                       /\ UNCHANGED <<roi_enabled, pc, exit_code>>
                    \/ /\ r1 = "ok" /\ r2 = "ok"
                       /\ roi_x0' = a[1]
                       /\ roi_y0' = a[2]
                       /\ roi_enabled' = TRUE
                       /\ Reply(". NULL")
                       /\ last_roi' = a
                       /\ UNCHANGED <<pc, exit_code>>
  /\ UNCHANGED <<video_on, guide_on, isu_on, serv_done, image_width, image_height,
                 win_x0, win_y0, null_x, null_y,
                 guide_xoff, guide_yoff,
                 isu_mrad_x_delta_setup, isu_mrad_y_delta_setup,
                 isu_mrad_x_status, isu_mrad_y_status, frame_rate,
                 fits_comment, frame_sequence, frame_save_count,
                 first_done_flag, pdv_p>>
  /\ UNCHANGED <<last_video_on_state, last_guide_on_state, xc, yc, thread_data>>
  /\ UNCHANGED <<in_flight, isu_vars, fh_fits_string_null>>
  /\ UNCHANGED <<hdr, frames, moves, writes, last_null, armed_n, armed_c, since_save>>
  /\ UNCHANGED guide_session
  /\ UNCHANGED <<cam_size, subimage>>
  /\ UNCHANGED codec_vars

\* ISU ON: check_isu_homed, then either a detached home_isu_thread or
\* enable_isu
IsuOnCmd ==
  /\ ServingCommands
  /\ \E chk \in CallResults, r \in CallResults :
       LET homed == (chk = "ok") /\ isu_homed IN
       IF ~homed
       THEN /\ homing < MaxHoming
            /\ \/ /\ r = "fail"            \* pthread_create or pthread_detach fails
                  /\ Exit("failure")
                  /\ UNCHANGED <<homing, reply>>
               \/ /\ r = "ok"
                  /\ homing' = homing + 1
                  /\ Reply(". ON")
                  /\ UNCHANGED <<pc, exit_code>>
            /\ UNCHANGED isu_on
       ELSE /\ \/ /\ r = "fail"            \* enable_isu fails
                  /\ Reply("! OFF")
                  /\ UNCHANGED isu_on
               \/ /\ r = "ok"
                  /\ isu_on' = TRUE
                  /\ Reply(". ON")
            /\ UNCHANGED <<pc, exit_code, homing>>
  /\ UNCHANGED <<video_on, guide_on, serv_done, image_width, image_height,
                 win_x0, win_y0, guide_x0, guide_y0, null_x, null_y,
                 guide_xoff, guide_yoff,
                 isu_mrad_x_delta_setup, isu_mrad_y_delta_setup,
                 isu_mrad_x_status, isu_mrad_y_status, frame_rate,
                 fits_comment, frame_sequence, frame_save_count,
                 first_done_flag, pdv_p>>
  /\ UNCHANGED <<last_video_on_state, last_guide_on_state, xc, yc, thread_data>>
  /\ UNCHANGED <<cam_vars, isu_homed, slope_workers, slope_call, fh_fits_string_null>>
  /\ UNCHANGED <<hdr, frames, moves, writes, last_null, last_roi, armed_n, armed_c, since_save>>
  /\ UNCHANGED guide_session
  /\ UNCHANGED <<cam_size, subimage>>
  /\ UNCHANGED codec_vars

\* ISU OFF: stop_isu
IsuOffCmd ==
  /\ ServingCommands
  /\ \E r \in CallResults :
       \/ /\ r = "fail"
          /\ Reply("! OFF")
          /\ UNCHANGED isu_on
       \/ /\ r = "ok"
          /\ isu_on' = FALSE
          /\ Reply(". OFF")
  /\ UNCHANGED <<video_on, guide_on, serv_done, image_width, image_height,
                 win_x0, win_y0, guide_x0, guide_y0, null_x, null_y,
                 guide_xoff, guide_yoff,
                 isu_mrad_x_delta_setup, isu_mrad_y_delta_setup,
                 isu_mrad_x_status, isu_mrad_y_status, frame_rate,
                 fits_comment, frame_sequence, frame_save_count,
                 first_done_flag, pdv_p>>
  /\ UNCHANGED <<main_vars, cam_vars, isu_vars, fh_fits_string_null>>
  /\ UNCHANGED <<hdr, frames, moves, writes, last_null, last_roi, armed_n, armed_c, since_save>>
  /\ UNCHANGED guide_session
  /\ UNCHANGED <<cam_size, subimage>>
  /\ UNCHANGED codec_vars

\* SHUTDOWN: sets the server-done flag and sends no reply
ShutdownCmd ==
  /\ ServingCommands
  /\ serv_done' = TRUE
  /\ Reply("")
  /\ UNCHANGED <<video_on, guide_on, isu_on, image_width, image_height,
                 win_x0, win_y0, guide_x0, guide_y0, null_x, null_y,
                 guide_xoff, guide_yoff,
                 isu_mrad_x_delta_setup, isu_mrad_y_delta_setup,
                 isu_mrad_x_status, isu_mrad_y_status, frame_rate,
                 fits_comment, frame_sequence, frame_save_count,
                 first_done_flag, pdv_p>>
  /\ UNCHANGED <<main_vars, cam_vars, isu_vars, fh_fits_string_null>>
  /\ UNCHANGED <<hdr, frames, moves, writes, last_null, last_roi, armed_n, armed_c, since_save>>
  /\ UNCHANGED guide_session
  /\ UNCHANGED <<cam_size, subimage>>
  /\ UNCHANGED codec_vars

(* ---------------- the camera codec: commands on the serial link ---------------- *)
\* What the camera does with the commands of one operator command: it
\* stores every write and echoes it, it answers a write with an error
\* status instead of the echo and keeps its registers, or it answers
\* nothing at all and every exchange runs into the serial timeout
CameraBehaviours == {"stores", "rejects", "silent"}

\* What the camera does with the read commands of a query: it answers
\* with the register contents or not at all
ReadBehaviours == {"stores", "silent"}

\* The operator command being handled, its argument and the behaviour of
\* the camera its codec commands met
LastCommand(name, arg, reached, cam) ==
  [name |-> name, arg |-> arg, camera |-> IF reached THEN cam ELSE Unreached]

\* pdvSerialWriteRead: FAIL when the channel cannot be opened or the bytes
\* cannot be handed to the link; otherwise whatever arrived before the
\* timeout is copied into the response and the result is PASS
PdvSerialWriteRead(link) == IF link = "fail" THEN "FAIL" ELSE "PASS"

\* checkCameraStatus: "49 50 19" then "4f 53 50 4c"
CheckCameraStatusCommands == <<<<73, 80, 25>>, <<79, 83, 80, 76>>>>

\* Variant: the checksum leaves out the end-of-command byte
WriteCommand_short(register, value) ==
  LET comd == <<83, 224, 2, register, value, 80>>
  IN Append(comd, XorAll(SubSeq(comd, 1, 5)))

\* a register write as the setters build it at run time:
\* 53 e0 02 <register> <value> 50 <checksum>
WriteCommand(register, value) ==
  LET comd == <<83, 224, 2, register, value, 80>>
  IN Append(comd, XorAll(comd))

\* the hard-coded command that selects a register for reading
SelectRegister ==
  (221 :> <<83, 224, 1, 221, 80, 63>>) @@    \* 53 e0 01 dd 50 3f
  (222 :> <<83, 224, 1, 222, 80, 60>>) @@    \* 53 e0 01 de 50 3c
  (223 :> <<83, 224, 1, 223, 80, 61>>) @@    \* 53 e0 01 df 50 3d
  (224 :> <<83, 224, 1, 224, 80, 2>>) @@     \* 53 e0 01 e0 50 02
  (238 :> <<83, 224, 1, 238, 80, 12>>) @@    \* 53 e0 01 ee 50 0c
  (239 :> <<83, 224, 1, 239, 80, 13>>) @@    \* 53 e0 01 ef 50 0d
  (240 :> <<83, 224, 1, 240, 80, 18>>) @@    \* 53 e0 01 f0 50 12
  (241 :> <<83, 224, 1, 241, 80, 19>>) @@    \* 53 e0 01 f1 50 13
  (251 :> <<83, 224, 1, 251, 80, 25>>) @@    \* 53 e0 01 fb 50 19
  (250 :> <<83, 224, 1, 250, 80, 24>>) @@    \* 53 e0 01 fa 50 18
  (198 :> <<83, 224, 1, 198, 80, 36>>) @@    \* 53 e0 01 c6 50 24
  (199 :> <<83, 224, 1, 199, 80, 37>>) @@    \* 53 e0 01 c7 50 25
  (242 :> <<83, 224, 1, 242, 80, 16>>) @@    \* 53 e0 01 f2 50 10
  (110 :> <<83, 224, 1, 110, 80, 140>>) @@   \* 53 e0 01 6e 50 8c
  (111 :> <<83, 224, 1, 111, 80, 141>>)      \* 53 e0 01 6f 50 8d

\* "53 e1 01 50 e3": read the selected register
ReadRegister == <<83, 225, 1, 80, 227>>

\* the two commands that read one register
ReadCommands(register) == <<SelectRegister[register], ReadRegister>>

\* "53 ae 05 01 00 00 02 00 50 ab" then "53 af 12 50 be": read the
\* manufacturing block with the DAC calibration
ManufacturingCommands ==
  <<<<83, 174, 5, 1, 0, 0, 2, 0, 80, 171>>, <<83, 175, 18, 80, 190>>>>

\* the hard-coded writes of setGuiderNUC, setGuiderAutoLevel,
\* enableGuiderTEC and setGuiderGainMode
FixedWriteCommands ==
  {<<83, 224, 2, 249, 1, 80, 25>>,      \* 53 e0 02 f9 01 50 19
   <<83, 224, 2, 35, 0, 80, 194>>,      \* 53 e0 02 23 00 50 c2
   <<83, 224, 2, 0, 129, 80, 96>>,      \* 53 e0 02 00 81 50 60
   <<83, 224, 2, 242, 0, 80, 19>>,      \* 53 e0 02 f2 00 50 13
   <<83, 224, 2, 242, 6, 80, 21>>}      \* 53 e0 02 f2 06 50 15

(* ---------------- the camera codec: frame rate ---------------- *)
\* setGuiderFrameRate: one write per byte to registers dd, de, df, e0
SetGuiderFrameRateCommands(mhz) ==
  LET bytes == FrameRateBytes(mhz)
  IN <<WriteCommand(221, bytes[1]), WriteCommand(222, bytes[2]),
       WriteCommand(223, bytes[3]), WriteCommand(224, bytes[4])>>

\* getGuiderFrameRate: registers dd, de, df, e0 in turn
GetGuiderFrameRateCommands ==
  ReadCommands(221) \o ReadCommands(222) \o ReadCommands(223) \o ReadCommands(224)

\* getGuiderFrameRate: the frame rate in Hz from the 32-bit count the
\* camera reports (40 MHz clock), 0 when the count reads as 0
GuiderFrameRate(value) == IF value = 0 THEN Hz(0) ELSE Ratio(40000000, value)

\* The 32-bit count in four registers after the first `sent` of the four
\* byte writes of a setter got through and the link took no more: each
\* setter returns FAIL at the first write that fails
PartialWrite(old, new, sent) ==
  HexValue(SubSeq(HexBytes4(new), 1, sent) \o SubSeq(HexBytes4(old), sent + 1, 4))

\* The register contents after the commands of a setter reached the camera
RegistersAfterWrite(cam, regs, field, count) ==
  IF cam = "stores" THEN [regs EXCEPT ![field] = count] ELSE regs

\* What a getter makes of the replies to its read commands.  With no
\* reply the response is the empty string, stringSplit finds no token and
\* its assert(idx == count - 1) aborts the process; built without
\* assertions the token is a null pointer and the count reads as 0.
ReadOutcomes(cam, count) ==
  IF cam = "silent"
  THEN {[aborted |-> TRUE, value |-> 0], [aborted |-> FALSE, value |-> 0]}
  ELSE {[aborted |-> FALSE, value |-> count]}

\* strtod on the argument of a command: the value, whether the conversion
\* went out of range (errno set to ERANGE) and whether it stopped at the
\* end of the argument
Strtod(arg) ==
  [value |-> arg.value, erange |-> arg.kind = "overflow",
   complete |-> arg.kind # "junk"]

\* "(errno == ERANGE) || (errno == EINVAL) || (*stop_at != '\0')": errno
\* is the process-wide value, which nothing in the program clears
InvalidArgument(err, parsed) == err = "ERANGE" \/ err = "EINVAL" \/ ~parsed.complete

\* errno after strtod
ErrnoAfter(parsed) == IF parsed.erange THEN "ERANGE" ELSE errno

\* "frame_rate <= 0 || (1e3 / frame_rate) > USER_TIMEOUT || frame_rate > 120"
\* for a rate in mHz
FrameRateInvalid(mhz) ==
  mhz <= 0 \/ PeriodTooLong(<<mhz, 1000>>) \/ mhz > 120000

\* the state record and the camera are left alone by a handler that
\* returns before it reaches the codec
CodecUntouched ==
  /\ UNCHANGED <<frame_rate, exposure_time, tec_setpoint, exp_on, cam_regs>>
  /\ UNCHANGED <<pc, exit_code>>

\* the fields and locals no handler of FRAMERATE, EXPTIME, TEC, STARTEXP
\* or ENDEXP assigns
ExposureFrame ==
  /\ UNCHANGED <<video_on, guide_on, isu_on, serv_done, image_width, image_height,
                 win_x0, win_y0, guide_x0, guide_y0, null_x, null_y,
                 guide_xoff, guide_yoff,
                 isu_mrad_x_delta_setup, isu_mrad_y_delta_setup,
                 isu_mrad_x_status, isu_mrad_y_status,
                 fits_comment, frame_sequence, frame_save_count,
                 first_done_flag, pdv_p>>
  /\ UNCHANGED <<last_video_on_state, last_guide_on_state, xc, yc, thread_data>>
  /\ UNCHANGED <<cam_vars, isu_vars, fh_fits_string_null>>
  /\ UNCHANGED <<hdr, frames, moves, writes, last_null, last_roi, armed_n, armed_c, since_save>>
  /\ UNCHANGED guide_session
  /\ UNCHANGED <<cam_size, subimage>>

\* everything but the codec's part of the state
CodecFrame ==
  /\ ExposureFrame
  /\ UNCHANGED <<guider_config, exp_info>>

\* FRAMERATE with an argument: validates it, writes the count to the
\* camera and caches the rate read back
FramerateSet ==
  /\ ServingCommands
  /\ \E arg \in FramerateArgs, link \in CallResults, cam \in CameraBehaviours :
       LET parsed == Strtod(arg)
           mhz == parsed.value
           count == HexValue(FrameRateBytes(mhz))
           regs == RegistersAfterWrite(cam, cam_regs, "frame_count", count)
           reached == /\ ~InvalidArgument(ErrnoAfter(parsed), parsed)
                      /\ ~FrameRateInvalid(mhz)
                      /\ PdvSerialWriteRead(link) = "PASS"
       IN /\ last_cmd' = LastCommand("FRAMERATE", arg, reached, cam)
          /\ errno' = ErrnoAfter(parsed)
          /\ IF InvalidArgument(ErrnoAfter(parsed), parsed)
             THEN /\ Reply("! FRAMERATE \"Invalid Argument Specified\"")
                  /\ serial_sent' = <<>>
                  /\ CodecUntouched
             ELSE IF FrameRateInvalid(mhz)
             THEN /\ Reply("! FRAMERATE \"Frame Rate Specified is Invalid\"")
                  /\ serial_sent' = <<>>
                  /\ CodecUntouched
             ELSE IF PdvSerialWriteRead(link) = "FAIL"
             THEN /\ Reply("! FRAMERATE \"Unable to set frame rate in the camera\"")
                  /\ serial_sent' = <<>>
                  /\ CodecUntouched
             ELSE /\ serial_sent' = CheckCameraStatusCommands
                                    \o SetGuiderFrameRateCommands(mhz)
                                    \o GetGuiderFrameRateCommands
                  /\ cam_regs' = regs
                  /\ UNCHANGED <<exposure_time, tec_setpoint, exp_on>>
                  /\ \E read \in ReadOutcomes(cam, regs.frame_count) :
                       IF read.aborted
                       THEN /\ Crashed
                            /\ UNCHANGED <<frame_rate, reply>>
                       ELSE /\ frame_rate' = GuiderFrameRate(read.value)
                            /\ Reply(". FRAMERATE")
                            /\ UNCHANGED <<pc, exit_code>>
  /\ CodecFrame

\* FRAMERATE with a valid argument when the link takes the first writes of
\* setGuiderFrameRate and then no more: the setter returns FAIL at the
\* first write that fails, the handler replies "!" and returns, and the
\* registers written so far keep their new bytes
FramerateSetInterrupted ==
  /\ ServingCommands
  /\ \E arg \in {NumArg(33333), NumArg(120000)}, sent \in 1 .. 3 :
       LET parsed == Strtod(arg)
           mhz == parsed.value
           count == HexValue(FrameRateBytes(mhz))
       IN /\ ~InvalidArgument(ErrnoAfter(parsed), parsed)
          /\ ~FrameRateInvalid(mhz)
          /\ last_cmd' = LastCommand("FRAMERATE", arg, TRUE, "stores")
          /\ errno' = ErrnoAfter(parsed)
          /\ Reply("! FRAMERATE \"Unable to set frame rate in the camera\"")
          /\ serial_sent' = CheckCameraStatusCommands
                            \o SubSeq(SetGuiderFrameRateCommands(mhz), 1, sent)
          /\ cam_regs' = [cam_regs EXCEPT !.frame_count =
                            PartialWrite(cam_regs.frame_count, count, sent)]
          /\ UNCHANGED <<frame_rate, exposure_time, tec_setpoint, exp_on>>
          /\ UNCHANGED <<pc, exit_code>>
  /\ CodecFrame

\* FRAMERATE without an argument: reads the rate back from the camera and
\* caches it in the state record
FramerateQuery ==
  /\ ServingCommands
  /\ \E link \in CallResults, cam \in ReadBehaviours :
       /\ last_cmd' = LastCommand("FRAMERATE?", NoArgument,
                                  PdvSerialWriteRead(link) = "PASS", cam)
       /\ UNCHANGED errno
       /\ IF PdvSerialWriteRead(link) = "FAIL"
          THEN /\ Reply("! FRAMERATE \"Unable to read frame rate in the camera\"")
               /\ serial_sent' = <<>>
               /\ CodecUntouched
          ELSE /\ serial_sent' = CheckCameraStatusCommands \o GetGuiderFrameRateCommands
               /\ UNCHANGED <<exposure_time, tec_setpoint, exp_on, cam_regs>>
               /\ \E read \in ReadOutcomes(cam, cam_regs.frame_count) :
                    IF read.aborted
                    THEN /\ Crashed
                         /\ UNCHANGED <<frame_rate, reply>>
                    ELSE /\ frame_rate' = GuiderFrameRate(read.value)
                         /\ Reply(". FRAMERATE")
                         /\ UNCHANGED <<pc, exit_code>>
  /\ CodecFrame

(* ---------------- the camera codec: exposure time ---------------- *)
\* setGuiderExptime: "%08lx" of the count, one write per byte to
\* registers ee, ef, f0, f1
SetGuiderExptimeCommands(count) ==
  LET bytes == HexBytes4(count)
  IN <<WriteCommand(238, bytes[1]), WriteCommand(239, bytes[2]),
       WriteCommand(240, bytes[3]), WriteCommand(241, bytes[4])>>

\* getGuiderExptime: registers ee, ef, f0, f1 in turn
GetGuiderExptimeCommands ==
  ReadCommands(238) \o ReadCommands(239) \o ReadCommands(240) \o ReadCommands(241)

\* "count / 40e3" in ms, kept in tenths of a count
ExptimeOfCount(count) == count * 10

\* EXPTIME with an argument: validates it, writes the count to the camera
\* and caches the time that was asked for
ExptimeSet ==
  /\ ServingCommands
  /\ \E arg \in ExptimeArgs, link \in CallResults, cam \in CameraBehaviours :
       LET parsed == Strtod(arg)
           exptime == parsed.value
           count == HexValue(HexBytes4(ExptimeCount(exptime)))
           reached == /\ ~InvalidArgument(ErrnoAfter(parsed), parsed)
                      /\ exptime > 0
                      /\ PdvSerialWriteRead(link) = "PASS"
       IN /\ last_cmd' = LastCommand("EXPTIME", arg, reached, cam)
          /\ errno' = ErrnoAfter(parsed)
          /\ UNCHANGED <<frame_rate, tec_setpoint, exp_on, pc, exit_code>>
          /\ IF InvalidArgument(ErrnoAfter(parsed), parsed) \/ exptime <= 0
             THEN /\ Reply("! EXPTIME \"Invalid Argument Specified\"")
                  /\ serial_sent' = <<>>
                  /\ UNCHANGED <<exposure_time, cam_regs>>
             ELSE IF PdvSerialWriteRead(link) = "FAIL"
             THEN /\ Reply("! EXPTIME \"Unable to set exposure time in the camera\"")
                  /\ serial_sent' = <<>>
                  /\ UNCHANGED <<exposure_time, cam_regs>>
             ELSE /\ serial_sent' = SetGuiderExptimeCommands(ExptimeCount(exptime))
                  /\ cam_regs' = RegistersAfterWrite(cam, cam_regs, "exp_count", count)
                  /\ exposure_time' = exptime
                  /\ Reply(". EXPTIME")
  /\ CodecFrame

\* EXPTIME without an argument: reads the count back from the camera and
\* caches the time it stands for
ExptimeQuery ==
  /\ ServingCommands
  /\ \E link \in CallResults, cam \in ReadBehaviours :
       /\ last_cmd' = LastCommand("EXPTIME?", NoArgument,
                                  PdvSerialWriteRead(link) = "PASS", cam)
       /\ UNCHANGED errno
       /\ IF PdvSerialWriteRead(link) = "FAIL"
          THEN /\ Reply("! EXPTIME \"Unable to exposure time in the camera\"")
               /\ serial_sent' = <<>>
               /\ CodecUntouched
          ELSE /\ serial_sent' = GetGuiderExptimeCommands
               /\ UNCHANGED <<frame_rate, tec_setpoint, exp_on, cam_regs>>
               /\ \E read \in ReadOutcomes(cam, cam_regs.exp_count) :
                    IF read.aborted
                    THEN /\ Crashed
                         /\ UNCHANGED <<exposure_time, reply>>
                    ELSE /\ exposure_time' = ExptimeOfCount(read.value)
                         /\ Reply(". EXPTIME")
                         /\ UNCHANGED <<pc, exit_code>>
  /\ CodecFrame

(* ---------------- the camera codec: TEC set point ---------------- *)
\* the calibration getGuiderTECPoint and setGuiderTECPoint read from the
\* manufacturing block
CameraCalibration(regs) == [dac0 |-> regs.dac0, dac40 |-> regs.dac40]

\* setGuiderTECPoint: the manufacturing block is read, then "%04lx" of
\* the count goes to registers fb and fa, one write per byte
SetGuiderTECPointCommands(count) ==
  LET bytes == HexBytes2(count)
  IN ManufacturingCommands \o <<WriteCommand(251, bytes[1]), WriteCommand(250, bytes[2])>>

\* getGuiderTECPoint: the manufacturing block, then registers fb and fa
GetGuiderTECPointCommands ==
  ManufacturingCommands \o ReadCommands(251) \o ReadCommands(250)

\* TEC with an argument: writes the DAC count of the set point to the
\* camera and caches the set point that was asked for
TecSet ==
  /\ ServingCommands
  /\ \E arg \in TecArgs, link \in CallResults, cam \in CameraBehaviours :
       LET parsed == Strtod(arg)
           setpoint == parsed.value
           count == HexValue(HexBytes2(TECPointCount(setpoint, CameraCalibration(cam_regs))))
           reached == /\ ~InvalidArgument(ErrnoAfter(parsed), parsed)
                      /\ PdvSerialWriteRead(link) = "PASS"
       IN /\ last_cmd' = LastCommand("TEC", arg, reached, cam)
          /\ errno' = ErrnoAfter(parsed)
          /\ UNCHANGED <<frame_rate, exposure_time, exp_on>>
          /\ IF InvalidArgument(ErrnoAfter(parsed), parsed)
             THEN /\ Reply("! TEC \"Invalid Argument Specified\"")
                  /\ serial_sent' = <<>>
                  /\ UNCHANGED <<tec_setpoint, cam_regs, pc, exit_code>>
             ELSE IF PdvSerialWriteRead(link) = "FAIL"
             THEN /\ Reply("! TEC \"Unable to set TEC set point in the camera\"")
                  /\ serial_sent' = <<>>
                  /\ UNCHANGED <<tec_setpoint, cam_regs, pc, exit_code>>
             ELSE IF \E read \in ReadOutcomes(cam, 0) : read.aborted
             THEN /\ serial_sent' = ManufacturingCommands
                  /\ Crashed
                  /\ UNCHANGED <<tec_setpoint, cam_regs, reply>>
             ELSE /\ serial_sent' = SetGuiderTECPointCommands(
                                      TECPointCount(setpoint, CameraCalibration(cam_regs)))
                  /\ cam_regs' = RegistersAfterWrite(cam, cam_regs, "tec_count", count)
                  /\ tec_setpoint' = setpoint
                  /\ Reply(". TEC")
                  /\ UNCHANGED <<pc, exit_code>>
  /\ CodecFrame

\* TEC without an argument: reads the DAC count back from the camera and
\* caches the temperature it stands for
TecQuery ==
  /\ ServingCommands
  /\ \E link \in CallResults, cam \in ReadBehaviours :
       /\ last_cmd' = LastCommand("TEC?", NoArgument,
                                  PdvSerialWriteRead(link) = "PASS", cam)
       /\ UNCHANGED <<errno, frame_rate, exposure_time, exp_on, cam_regs>>
       /\ IF PdvSerialWriteRead(link) = "FAIL"
          THEN /\ Reply("! TEC \"Unable to read TEC set point in the camera\"")
               /\ serial_sent' = <<>>
               /\ UNCHANGED <<tec_setpoint, pc, exit_code>>
          ELSE IF \E read \in ReadOutcomes(cam, 0) : read.aborted
          THEN /\ serial_sent' = ManufacturingCommands
               /\ Crashed
               /\ UNCHANGED <<tec_setpoint, reply>>
          ELSE /\ serial_sent' = GetGuiderTECPointCommands
               /\ tec_setpoint' = TECPointOfCount(cam_regs.tec_count,
                                                  CameraCalibration(cam_regs))
               /\ Reply(". TEC")
               /\ UNCHANGED <<pc, exit_code>>
  /\ CodecFrame

(* ---------------- the camera codec: every function on its own ---------------- *)
\* setDigitalGain: "%04lx" of value * 256, one write per byte to
\* registers c6 and c7
SetDigitalGainCommands(value) ==
  LET bytes == HexBytes2(value * 256)
  IN <<WriteCommand(198, bytes[1]), WriteCommand(199, bytes[2])>>

\* getDigitalGain: registers c6 and c7
GetDigitalGainCommands == ReadCommands(198) \o ReadCommands(199)

\* getGuiderGainMode: register f2
GetGuiderGainModeCommands == ReadCommands(242)

\* checkGuiderTemp: the manufacturing block, then registers 6e and 6f
CheckGuiderTempCommands ==
  ManufacturingCommands \o ReadCommands(110) \o ReadCommands(111)

\* the command sequences of the codec functions that take no value
FixedCodecCalls ==
  {<<c>> : c \in FixedWriteCommands}
  \cup {CheckCameraStatusCommands, GetGuiderFrameRateCommands,
        GetGuiderExptimeCommands, GetGuiderTECPointCommands,
        GetDigitalGainCommands, GetGuiderGainModeCommands,
        CheckGuiderTempCommands}

\* the commands a codec function puts on the link, whatever called it.
\* The callers below take rates in mHz whose r * 100 runs over 5 .. 300,
\* exposure counts whose bytes run over 00 .. ff (7f for the first),
\* 16-bit TEC counts whose two bytes run over 00 .. ff, and the digital
\* gains 0 .. 255
CodecCall(name, value, commands) ==
  /\ ServingCommands
  /\ last_cmd' = LastCommand(name, NumArg(value), TRUE, "stores")
  /\ serial_sent' = commands
  /\ UNCHANGED <<errno, reply>>
  /\ CodecUntouched
  /\ CodecFrame

CallFixedCommands ==
  \E commands \in FixedCodecCalls : CodecCall("fixed", 0, commands)

CallSetGuiderFrameRate ==
  \E r \in {10 * d : d \in 5 .. 300} : CodecCall("setGuiderFrameRate", r, SetGuiderFrameRateCommands(r))

CallSetGuiderExptime ==
  \E count \in {v * 65793 : v \in 0 .. 255} \cup {v * 16777216 : v \in 0 .. 127} :
    CodecCall("setGuiderExptime", count, SetGuiderExptimeCommands(count))

CallSetGuiderTECPoint ==
  \E count \in {v * 257 : v \in 0 .. 255} :
    CodecCall("setGuiderTECPoint", count, SetGuiderTECPointCommands(count))

CallSetDigitalGain ==
  \E value \in 0 .. 255 :
    CodecCall("setDigitalGain", value, SetDigitalGainCommands(value))

(* ---------------- STARTEXP and ENDEXP ---------------- *)
Digits == {"0", "1", "2", "3", "4", "5", "6", "7", "8", "9"}

UpperCase == <<"A", "B", "C", "D", "E", "F", "G", "H", "I", "J", "K", "L", "M",
               "N", "O", "P", "Q", "R", "S", "T", "U", "V", "W", "X", "Y", "Z">>

LowerCase == <<"a", "b", "c", "d", "e", "f", "g", "h", "i", "j", "k", "l", "m",
               "n", "o", "p", "q", "r", "s", "t", "u", "v", "w", "x", "y", "z">>

\* tolower
ToLower(c) ==
  IF \E i \in 1 .. 26 : UpperCase[i] = c
  THEN LowerCase[CHOOSE i \in 1 .. 26 : UpperCase[i] = c]
  ELSE c

\* strncasecmp(text, prefix, strlen(prefix)) == 0
StartsWith(text, prefix) ==
  /\ Len(text) >= Len(prefix)
  /\ \A i \in 1 .. Len(prefix) : ToLower(text[i]) = prefix[i]

\* the branch of the STARTEXP loop an argument takes, and the text after
\* the key
ArgKey(text) ==
  IF StartsWith(text, <<"f", "i", "l", "e", "n", "a", "m", "e", "=">>) THEN "filename"
  ELSE IF StartsWith(text, <<"r", "a", "=">>) THEN "ra"
  ELSE IF StartsWith(text, <<"d", "e", "c", "=">>) THEN "dec"
  ELSE IF StartsWith(text, <<"e", "q", "u", "i", "n", "o", "x", "=">>) THEN "equinox"
  ELSE IF StartsWith(text, <<"o", "b", "j", "m", "a", "g", "=">>) THEN "objmag"
  ELSE "unsupported"

ArgValue(text) ==
  LET skip == CASE ArgKey(text) = "filename" -> 9
                [] ArgKey(text) = "ra" -> 3
                [] ArgKey(text) = "dec" -> 4
                [] ArgKey(text) = "equinox" -> 8
                [] ArgKey(text) = "objmag" -> 7
                [] OTHER -> 0
  IN SubSeq(text, skip + 1, Len(text))

\* the loop of isFloat from index i (counted from 1), with its flags
RECURSIVE IsFloatScan(_, _, _, _, _)
IsFloatScan(ch, i, flagPt, flagE, iE) ==
  IF i > Len(ch) THEN TRUE
  ELSE IF ch[i] \in Digits THEN IsFloatScan(ch, i + 1, flagPt, flagE, iE)
  ELSE IF ~flagPt /\ ~flagE /\ ch[i] = "." THEN IsFloatScan(ch, i + 1, TRUE, flagE, iE)
  ELSE IF ~flagE /\ ch[i] \in {"E", "e"} THEN IsFloatScan(ch, i + 1, flagPt, TRUE, i)
  ELSE IF flagE /\ ch[i] = "-"
       THEN IF i # iE + 1 THEN FALSE ELSE IsFloatScan(ch, i + 1, flagPt, flagE, iE)
  ELSE FALSE

\* isFloat: a sign or a digit first, something after a sign, then digits
\* with at most one point before the exponent, one e or E, and - only
\* right after it
IsFloat(ch) ==
  LET debut == IF ch # <<>> /\ ch[1] \in {"+", "-"} THEN 1
               ELSE IF ch # <<>> /\ ch[1] \in Digits THEN 0
               ELSE -1
  IN /\ debut # -1
     /\ debut # Len(ch)
     /\ IsFloatScan(ch, debut + 1, FALSE, FALSE, 0)

\* what is left of a text after its leading digits
RECURSIVE SkipDigits(_)
SkipDigits(text) ==
  IF text # <<>> /\ Head(text) \in Digits THEN SkipDigits(Tail(text)) ELSE text

SkipSign(text) == IF text # <<>> /\ Head(text) \in {"+", "-"} THEN Tail(text) ELSE text

\* the texts atof converts from the first to the last character: an
\* optional sign, digits with an optional point and at least one digit,
\* and an optional exponent e or E with an optional sign and digits
DecimalFloat(text) ==
  LET whole == SkipSign(text)
      point == SkipDigits(whole)
      frac == IF point # <<>> /\ Head(point) = "." THEN Tail(point) ELSE point
      expo == SkipDigits(frac)
      mantissa == (Len(whole) - Len(point)) + (Len(frac) - Len(expo))
      power == IF expo # <<>> /\ Head(expo) \in {"e", "E"} THEN SkipSign(Tail(expo)) ELSE expo
      rest == IF expo # <<>> /\ Head(expo) \in {"e", "E"} THEN SkipDigits(power) ELSE expo
  IN /\ mantissa > 0
     /\ rest = <<>>
     /\ (expo # <<>>) => Len(power) > Len(rest)

\* atof: converts the longest leading part of the text that is a number;
\* the value is kept as that part, 0 when there is none
Atof(text) ==
  LET lengths == {k \in 1 .. Len(text) : DecimalFloat(SubSeq(text, 1, k))}
  IN IF lengths = {} THEN <<"0">>
     ELSE SubSeq(text, 1, CHOOSE k \in lengths : \A j \in lengths : j <= k)

\* the second loop of the STARTEXP handler from argument i on: the
\* exposure fields it leaves and the reply when it breaks out
RECURSIVE StartexpLoop(_, _, _)
StartexpLoop(args, i, info) ==
  IF i > Len(args) THEN [info |-> info, reply |-> ". STARTEXP"]
  ELSE LET key == ArgKey(args[i])
           value == ArgValue(args[i])
       IN CASE key = "filename" ->
                 StartexpLoop(args, i + 1, [info EXCEPT !.filename = Sprintf(value)])
            [] key = "ra" ->
                 StartexpLoop(args, i + 1, [info EXCEPT !.ra = Sprintf(value)])
            [] key = "dec" ->
                 StartexpLoop(args, i + 1, [info EXCEPT !.dec = Sprintf(value)])
            [] key = "equinox" ->
                 IF IsFloat(value)
                 THEN StartexpLoop(args, i + 1, [info EXCEPT !.equinox = Atof(value)])
                 ELSE [info |-> info,
                       reply |-> "! STARTEXP \"float equinox argument expected\""]
            [] key = "objmag" ->
                 IF IsFloat(value)
                 THEN StartexpLoop(args, i + 1, [info EXCEPT !.equinox = Atof(value)])
                 ELSE [info |-> info,
                       reply |-> "! STARTEXP \"float objmag argument expected\""]
            [] OTHER ->
                 [info |-> info, reply |-> "! STARTEXP \"argument is unsupported\""]

\* STARTEXP with arguments
StartexpCmd ==
  /\ ServingCommands
  /\ \E args \in StartexpArgs :
       LET parsed == [exp_info EXCEPT !.cargv = args]
           reset == [parsed EXCEPT !.ra = Sprintf(fh_fits_string_null),
                                   !.dec = Sprintf(fh_fits_string_null),
                                   !.equinox = FitsRealNull,
                                   !.objmag = FitsRealNull]
           done == StartexpLoop(args, 1, reset)
       IN /\ last_cmd' = LastCommand("STARTEXP", NoArgument, FALSE, Unreached)
          /\ IF ~\E i \in 1 .. Len(args) : ArgKey(args[i]) = "filename"
             THEN /\ Reply("! STARTEXP \"Filename argument is mandatory\"")
                  /\ exp_info' = parsed
                  /\ UNCHANGED exp_on
             ELSE /\ Reply(done.reply)
                  /\ exp_info' = done.info
                  /\ exp_on' = IF done.reply = ". STARTEXP" THEN TRUE ELSE exp_on
  /\ serial_sent' = <<>>
  /\ UNCHANGED <<errno, frame_rate, exposure_time, tec_setpoint, cam_regs, guider_config>>
  /\ UNCHANGED <<pc, exit_code>>
  /\ ExposureFrame

\* ENDEXP
EndexpCmd ==
  /\ ServingCommands
  /\ last_cmd' = LastCommand("ENDEXP", NoArgument, FALSE, Unreached)
  /\ Reply(". ENDEXP")
  /\ exp_on' = FALSE
  /\ serial_sent' = <<>>
  /\ UNCHANGED <<errno, frame_rate, exposure_time, tec_setpoint, cam_regs, guider_config,
                 exp_info>>
  /\ UNCHANGED <<pc, exit_code>>
  /\ ExposureFrame

\* SIGTERM or SIGINT: cli_signal runs cleanup, which destroys the socket
\* server and calls exit(EXIT_SUCCESS)
TerminateSignal ==
  /\ pc # "exited"
  /\ Exit("success")
  /\ UNCHANGED <<serv_vars, last_video_on_state, last_guide_on_state, xc, yc,
                 thread_data, cam_vars, isu_vars, obs_vars, fh_fits_string_null,
                 guide_session>>
  /\ UNCHANGED <<cam_size, subimage>>
  /\ UNCHANGED codec_vars

(* ---------------- worker threads ---------------- *)
\* home_isu_thread: runs home_isu and stores the outcome in serv_info->isu_on
HomeIsuThread ==
  /\ pc # "exited"
  /\ homing > 0
  /\ homing' = homing - 1
  /\ \E r \in CallResults :
       \/ /\ r = "fail"
          /\ isu_on' = FALSE
          /\ UNCHANGED isu_homed
       \/ /\ r = "ok"
          /\ isu_on' = TRUE
          /\ isu_homed' = TRUE
  /\ UNCHANGED <<video_on, guide_on, serv_done, image_width, image_height,
                 win_x0, win_y0, guide_x0, guide_y0, null_x, null_y,
                 guide_xoff, guide_yoff,
                 isu_mrad_x_delta_setup, isu_mrad_y_delta_setup,
                 isu_mrad_x_status, isu_mrad_y_status, frame_rate,
                 fits_comment, frame_sequence, frame_save_count,
                 first_done_flag, pdv_p>>
  /\ UNCHANGED <<main_vars, cam_vars, slope_workers, slope_call, obs_vars,
                 fh_fits_string_null>>
  /\ UNCHANGED guide_session
  /\ UNCHANGED <<cam_size, subimage>>
  /\ UNCHANGED codec_vars

\* What a slope worker reads through the pointer it was given: the thdata
\* local of main() as it is when the worker runs
SlopeThreadArgs(spawned_with, current) == current

\* set_analog_slope_thread: reads the five arguments through p_args and
\* calls set_analog_slope
SetAnalogSlopeThread ==
  /\ pc # "exited"
  /\ \E w \in slope_workers :
       /\ slope_workers' = slope_workers \ {w}
       /\ slope_call' = [called |-> TRUE, frame |-> w.frame, computed |-> w.computed,
                         passed |-> SlopeThreadArgs(w.computed, thread_data)]
  /\ UNCHANGED <<serv_vars, main_vars, cam_vars, isu_homed, homing, obs_vars,
                 fh_fits_string_null>>
  /\ UNCHANGED guide_session
  /\ UNCHANGED <<cam_size, subimage>>
  /\ UNCHANGED codec_vars

(* ---------------- main(): the frame loop ---------------- *)
\* pdv_get_width / pdv_get_height: the size the camera delivers
CamWidth == IF roi_enabled THEN GUIDE_SIZE_X ELSE cam_size[1]

CamHeight == IF roi_enabled THEN GUIDE_SIZE_Y ELSE cam_size[2]

\* "Make sure the height and width are valid"
ImageSizeIncorrect(w, h) == w <= 1 /\ h <= 1

\* sockserv_run returns: the poll of this iteration is over
SockservRunReturns ==
  /\ pc = "poll"
  /\ pc' = "polled"
  /\ reply' = NoValue
  /\ UNCHANGED <<serv_vars, exit_code, last_video_on_state, last_guide_on_state,
                 xc, yc, thread_data, cam_vars, isu_vars, fh_fits_string_null>>
  /\ UNCHANGED <<hdr, frames, moves, writes, last_null, last_roi,
                 armed_n, armed_c, since_save>>
  /\ UNCHANGED guide_session
  /\ UNCHANGED <<cam_size, subimage>>
  /\ UNCHANGED codec_vars

\* The video switch-on sequence, run when video_on is TRUE and the last
\* state was off; with video off the iteration ends after the
\* last-state update at the bottom of the loop
VideoSwitchOn ==
  /\ pc = "polled"
  /\ IF (last_video_on_state = FALSE) /\ (video_on = TRUE)
     THEN \E open \in CallResults, mb \in CallResults, st \in CallResults :
            IF ~pdv_p /\ open = "fail"
            THEN /\ video_on' = FALSE
                 /\ pdv_p' = FALSE
                 /\ pc' = "poll"
                 /\ UNCHANGED <<image_width, image_height, last_video_on_state>>
            ELSE /\ image_width' = CamWidth
                 /\ image_height' = CamHeight
                 /\ IF ImageSizeIncorrect(CamWidth, CamHeight) \/ mb = "fail" \/ st = "fail"
                    THEN /\ video_on' = FALSE
                         /\ pdv_p' = FALSE
                         /\ pc' = "poll"
                         /\ UNCHANGED last_video_on_state
                    ELSE /\ pdv_p' = TRUE
                         /\ last_video_on_state' = TRUE
                         /\ pc' = "start"
                         /\ UNCHANGED video_on
     ELSE /\ IF video_on = TRUE
             THEN /\ pc' = "start"
                  /\ UNCHANGED last_video_on_state
             ELSE /\ last_video_on_state' = FALSE
                  /\ pc' = "poll"
          /\ UNCHANGED <<video_on, pdv_p, image_width, image_height>>
  /\ UNCHANGED <<guide_on, isu_on, serv_done,
                 win_x0, win_y0, guide_x0, guide_y0, null_x, null_y,
                 guide_xoff, guide_yoff,
                 isu_mrad_x_delta_setup, isu_mrad_y_delta_setup,
                 isu_mrad_x_status, isu_mrad_y_status, frame_rate,
                 fits_comment, frame_sequence, frame_save_count,
                 first_done_flag>>
  /\ UNCHANGED <<exit_code, last_guide_on_state, xc, yc, thread_data>>
  /\ UNCHANGED <<cam_vars, isu_vars, obs_vars, fh_fits_string_null>>
  /\ UNCHANGED guide_session
  /\ UNCHANGED <<cam_size, subimage>>
  /\ UNCHANGED codec_vars

\* pdv_start_images(pdv_p, 0)
StartImage ==
  /\ pc = "start"
  /\ frames < MaxFrames
  /\ in_flight' = in_flight + 1
  /\ frames' = frames + 1
  /\ moves' = 0
  /\ writes' = 0
  /\ pc' = "wait"
  /\ UNCHANGED <<serv_vars, exit_code, last_video_on_state, last_guide_on_state,
                 xc, yc, thread_data>>
  /\ UNCHANGED <<roi_enabled, roi_x0, roi_y0, isu_vars, fh_fits_string_null>>
  /\ UNCHANGED <<hdr, reply, last_null, last_roi, armed_n, armed_c, since_save>>
  /\ UNCHANGED guide_session
  /\ UNCHANGED <<cam_size, subimage>>
  /\ UNCHANGED codec_vars

\* image_p = pdv_wait_image(pdv_p), then the branch on guide_on; with guide
\* off the end of a guide session is recorded
WaitImage ==
  /\ pc = "wait"
  /\ in_flight' = in_flight - 1
  /\ IF guide_on = TRUE
     THEN /\ pc' = "guide"
          /\ UNCHANGED <<last_guide_on_state, first_done_flag>>
     ELSE /\ pc' = "write"
          /\ IF last_guide_on_state = TRUE
             THEN /\ last_guide_on_state' = FALSE
                  /\ first_done_flag' = 0
             ELSE UNCHANGED <<last_guide_on_state, first_done_flag>>
  /\ UNCHANGED <<video_on, guide_on, isu_on, serv_done, image_width, image_height,
                 win_x0, win_y0, guide_x0, guide_y0, null_x, null_y,
                 guide_xoff, guide_yoff,
                 isu_mrad_x_delta_setup, isu_mrad_y_delta_setup,
                 isu_mrad_x_status, isu_mrad_y_status, frame_rate,
                 fits_comment, frame_sequence, frame_save_count, pdv_p>>
  /\ UNCHANGED <<exit_code, last_video_on_state, xc, yc, thread_data>>
  /\ UNCHANGED <<roi_enabled, roi_x0, roi_y0, isu_vars, obs_vars, fh_fits_string_null>>
  /\ UNCHANGED guide_session
  /\ UNCHANGED <<cam_size, subimage>>
  /\ UNCHANGED codec_vars

\* guide_xoff = (guide_x0 + xc - null_x) * PIXSCALE, with xc and null_x in
\* half pixels and the result in milli-arcseconds
GuideOffset(g0, c, n) == ((2 * g0 + c - n) * PIXSCALE) \div 2

\* libisu arcsec_to_mrad: milli-arcseconds to nano-radians
ArcsecToMrad(a) == (a * 4848) \div 1000

\* libisu setup_to_true: the calibration from the logical setpoint to the
\* true mechanism angle, a map that is not the identity
SetupToTrue(m) == (m * 9) \div 10

\* Variant: the frame rate is passed on as it is, 0 included
SlopeArgs_raw_rate(rate, sx, sy, dx, dy) == <<rate, sx, sy, sx - dx, sy - dy>>

\* the five fields of thread_data
SlopeArgs(rate, sx, sy, dx, dy) ==
  <<IF ~RateIsZero(rate) THEN rate ELSE Hz(DEFAULT_FRAME_RATE), sx, sy, sx - dx, sy - dy>>

\* Variant: the FWHM entry point and the fault check run on every frame
FirstFrameOfSession_every(flag) == TRUE

\* "if (serv_info->first_done_flag == 0)"
FirstFrameOfSession(flag) == flag = 0

\* The guide branch of one frame: FWHM and ISU fault check on the first
\* frame of the session, centroid, offsets, get_angles, and the dispatch
\* of a slope worker when isu_on is TRUE
GuideFrame ==
  /\ pc = "guide"
  /\ \E chk \in {"skip", "fail", "ok", "x_fault", "y_fault"},
        cx \in CentroidsX, cy \in CentroidsY,
        ga \in CallResults, ax \in AnglesX, ay \in AnglesY,
        th \in CallResults :
       LET xoff == GuideOffset(guide_x0, cx, null_x)
           yoff == GuideOffset(guide_y0, cy, null_y)
           dx == SetupToTrue(ArcsecToMrad(xoff))
           dy == SetupToTrue(ArcsecToMrad(yoff))
           args == SlopeArgs(frame_rate, ax, ay, dx, dy)
       IN
       /\ (chk = "skip") <=> ~FirstFrameOfSession(first_done_flag)
       /\ guide_session' =
            [frames |-> guide_session.frames + 1,
             fwhm |-> guide_session.fwhm + (IF chk = "skip" THEN 0 ELSE 1),
             centroid |-> guide_session.centroid +
                            (IF chk \in {"x_fault", "y_fault"} THEN 0 ELSE 1),
             check |-> (IF chk = "skip" THEN guide_session.check ELSE chk)]
       /\ IF chk \in {"x_fault", "y_fault"}
          THEN /\ Exit("failure")
               /\ UNCHANGED <<xc, yc, guide_xoff, guide_yoff,
                              isu_mrad_x_delta_setup, isu_mrad_y_delta_setup,
                              isu_mrad_x_status, isu_mrad_y_status,
                              thread_data, slope_workers, moves,
                              first_done_flag, last_guide_on_state>>
          ELSE /\ xc' = cx
               /\ yc' = cy
               /\ guide_xoff' = xoff
               /\ guide_yoff' = yoff
               /\ isu_mrad_x_delta_setup' = dx
               /\ isu_mrad_y_delta_setup' = dy
               /\ IF ga = "fail"
                  THEN /\ Exit("failure")
                       /\ UNCHANGED <<isu_mrad_x_status, isu_mrad_y_status,
                                      thread_data, slope_workers, moves,
                                      first_done_flag, last_guide_on_state>>
                  ELSE /\ isu_mrad_x_status' = ax
                       /\ isu_mrad_y_status' = ay
                       /\ IF isu_on = TRUE
                          THEN /\ thread_data' = args
                               /\ IF th = "fail"
                                  THEN /\ Exit("failure")
                                       /\ UNCHANGED <<slope_workers, moves,
                                                      first_done_flag, last_guide_on_state>>
                                  ELSE /\ slope_workers' = slope_workers \cup
                                            {[frame |-> frames, computed |-> args]}
                                       /\ moves' = moves + 1
                                       /\ first_done_flag' = 1
                                       /\ last_guide_on_state' = TRUE
                                       /\ pc' = "write"
                                       /\ UNCHANGED exit_code
                          ELSE /\ first_done_flag' = 1
                               /\ last_guide_on_state' = TRUE
                               /\ pc' = "write"
                               /\ UNCHANGED <<exit_code, thread_data, slope_workers, moves>>
  /\ UNCHANGED <<video_on, guide_on, isu_on, serv_done, image_width, image_height,
                 win_x0, win_y0, guide_x0, guide_y0, null_x, null_y, frame_rate,
                 fits_comment, frame_sequence, frame_save_count, pdv_p>>
  /\ UNCHANGED <<last_video_on_state, cam_vars, isu_homed, homing, slope_call,
                 fh_fits_string_null>>
  /\ UNCHANGED <<hdr, frames, writes, reply, last_null, last_roi, armed_n, armed_c, since_save>>
  /\ UNCHANGED <<cam_size, subimage>>
  /\ UNCHANGED codec_vars

(* ---------------- writeFITSImage ---------------- *)
\* "Set the frame sequence to be show acquire unless we are saving images"
EType(fs) == IF fs > 0 THEN "GUIDE" ELSE "ACQUIRE"

\* SEQNUM is written as ++(serv_info->frame_sequence)
SeqNum(fs) == fs + 1

\* "If the frame count has been reached, clear out the save information":
\* strcmp(fits_comment, fh_fits_string_null) && frame_sequence >= frame_save_count
SaveCountReached(comment, nullstr, fs, count) == (comment # nullstr) /\ (fs >= count)

\* the keywords of the header built from the state record
FitsHeader ==
  [NAXIS1 |-> image_width,
   NAXIS2 |-> image_height,
   ETYPE |-> EType(frame_sequence),
   IMGINFO |-> fits_comment,
   SEQNUM |-> SeqNum(frame_sequence),
   WIN_X0 |-> win_x0,
   WIN_Y0 |-> win_y0,
   GUIDE_X0 |-> guide_x0,
   GUIDE_Y0 |-> guide_y0,
   NULLX |-> null_x,
   NULLY |-> null_y,
   GD_XOFF |-> IF guide_on = TRUE THEN guide_xoff ELSE RealNull,
   GD_YOFF |-> IF guide_on = TRUE THEN guide_yoff ELSE RealNull,
   SMRAD_X |-> IF isu_on = TRUE THEN isu_mrad_x_delta_setup ELSE RealNull,
   SMRAD_Y |-> IF isu_on = TRUE THEN isu_mrad_y_delta_setup ELSE RealNull,
   RMRAD_X |-> IF isu_on = TRUE THEN isu_mrad_x_status ELSE RealNull,
   RMRAD_Y |-> IF isu_on = TRUE THEN isu_mrad_y_status ELSE RealNull]

\* Variant: the frame loop goes back to the poll without calling writeFITSImage
WriteFITSImage_skipped ==
  /\ pc = "write"
  /\ pc' = "poll"
  /\ UNCHANGED <<serv_vars, exit_code, last_video_on_state, last_guide_on_state,
                 xc, yc, thread_data, cam_vars, isu_vars, obs_vars,
                 fh_fits_string_null>>
  /\ UNCHANGED guide_session
  /\ UNCHANGED <<cam_size, subimage>>
  /\ UNCHANGED codec_vars

\* writeFITSImage(image_p), called once per acquired frame, followed by the
\* bottom of the loop.  hdr keeps the header that was built and, next to
\* it, what the frame loop saw when it built it.
WriteFITSImage ==
  /\ pc = "write"
  /\ \E w \in CallResults :
       hdr' = [built |-> TRUE,
               kw |-> FitsHeader,
               written |-> (w = "ok"),
               frame |-> frames,
               moves |-> moves,
               guide_on |-> guide_on,
               isu_on |-> isu_on,
               xc |-> xc, yc |-> yc,
               save_count |-> frame_save_count,
               since_save |-> since_save + 1,
               last_null |-> last_null,
               last_roi |-> last_roi]
  /\ IF SaveCountReached(fits_comment, fh_fits_string_null,
                         SeqNum(frame_sequence), frame_save_count)
     THEN /\ fits_comment' = EmptyString
          /\ frame_save_count' = 0
          /\ frame_sequence' = 0
     ELSE /\ frame_sequence' = SeqNum(frame_sequence)
          /\ UNCHANGED <<fits_comment, frame_save_count>>
  /\ writes' = writes + 1
  /\ since_save' = since_save + 1
  /\ pc' = "poll"
  /\ UNCHANGED <<video_on, guide_on, isu_on, serv_done, image_width, image_height,
                 win_x0, win_y0, guide_x0, guide_y0, null_x, null_y,
                 guide_xoff, guide_yoff,
                 isu_mrad_x_delta_setup, isu_mrad_y_delta_setup,
                 isu_mrad_x_status, isu_mrad_y_status, frame_rate,
                 first_done_flag, pdv_p>>
  /\ UNCHANGED <<exit_code, last_video_on_state, last_guide_on_state,
                 xc, yc, thread_data>>
  /\ UNCHANGED <<cam_vars, isu_vars, fh_fits_string_null>>
  /\ UNCHANGED <<frames, moves, reply, last_null, last_roi, armed_n, armed_c>>
  /\ UNCHANGED guide_session
  /\ UNCHANGED <<cam_size, subimage>>
  /\ UNCHANGED codec_vars

(* ---------------- the specification ---------------- *)
Next ==
  \/ VideoCmd
  \/ GuideOffCmd
  \/ GuideOnCmd
  \/ SaveCmd
  \/ NullCmd
  \/ RoiCmd
  \/ IsuOnCmd
  \/ IsuOffCmd
  \/ ShutdownCmd
  \/ FramerateQuery
  \/ TerminateSignal
  \/ HomeIsuThread
  \/ SetAnalogSlopeThread
  \/ SockservRunReturns
  \/ VideoSwitchOn
  \/ StartImage
  \/ WaitImage
  \/ GuideFrame
  \/ WriteFITSImage

Spec == Init /\ [][Next]_vars

\* The operator only switches video and guiding and moves the guide raster.
NextRoi ==
  \/ VideoCmd
  \/ GuideOffCmd
  \/ GuideOnCmd
  \/ RoiCmd
  \/ SockservRunReturns
  \/ VideoSwitchOn
  \/ StartImage
  \/ WaitImage
  \/ GuideFrame
  \/ WriteFITSImage

SpecRoi == Init /\ [][NextRoi]_vars

\* The operator only switches video and guiding on and moves the guide
\* raster and the null position.
NextNull ==
  \/ VideoCmd
  \/ GuideOnCmd
  \/ NullCmd
  \/ RoiCmd
  \/ SockservRunReturns
  \/ VideoSwitchOn
  \/ StartImage
  \/ WaitImage
  \/ GuideFrame
  \/ WriteFITSImage

SpecNull == Init /\ [][NextNull]_vars

\* The operator only switches video and arms or cancels save sequences.
NextSave ==
  \/ VideoCmd
  \/ SaveCmd
  \/ SockservRunReturns
  \/ VideoSwitchOn
  \/ StartImage
  \/ WaitImage
  \/ WriteFITSImage

SpecSave == Init /\ [][NextSave]_vars

\* The operator only switches video, guiding and the ISU.
NextIsu ==
  \/ VideoCmd
  \/ GuideOnCmd
  \/ IsuOnCmd
  \/ IsuOffCmd
  \/ HomeIsuThread
  \/ SetAnalogSlopeThread
  \/ SockservRunReturns
  \/ VideoSwitchOn
  \/ StartImage
  \/ WaitImage
  \/ GuideFrame
  \/ WriteFITSImage

SpecIsu == Init /\ [][NextIsu]_vars

\* The frame loop with the guide and ISU switched on and the frame rate
\* read back from the camera
NextSlope ==
  \/ VideoCmd
  \/ GuideOnCmd
  \/ IsuOnCmd
  \/ FramerateQuery
  \/ HomeIsuThread
  \/ SetAnalogSlopeThread
  \/ SockservRunReturns
  \/ VideoSwitchOn
  \/ StartImage
  \/ WaitImage
  \/ GuideFrame
  \/ WriteFITSImage

SpecSlope == Init /\ [][NextSlope]_vars

(* ---------------- main(): start-up ---------------- *)
\* The commands main() sends to the camera before it creates the
\* listening socket
StartupCommands(cal) ==
  CheckCameraStatusCommands
  \o <<<<83, 224, 2, 249, 1, 80, 25>>, <<83, 224, 2, 35, 0, 80, 194>>,
       <<83, 224, 2, 0, 129, 80, 96>>>>
  \o CheckCameraStatusCommands
  \o <<<<83, 224, 2, 242, 6, 80, 21>>>>
  \o GetGuiderGainModeCommands
  \o SetGuiderTECPointCommands(TECPointCount(DEFAULT_TEC_SETPOINT, cal))
  \o SetDigitalGainCommands(DEFAULT_DIGITAL_GAIN)
  \o GetDigitalGainCommands
  \o SetGuiderExptimeCommands(ExptimeCount(DEFAULT_EXPOSURE_TIME))
  \o SetGuiderFrameRateCommands(DEFAULT_FRAME_RATE * 1000)

\* getGuiderGainMode: the mode is assigned when register f2 reads 0 or 6
\* and is left as the caller initialised it otherwise
GetGuiderGainMode(value, mode) ==
  IF value = 0 THEN LOWGAIN ELSE IF value = 6 THEN HIGHGAIN ELSE mode

\* main() from loadGuiderConfiguration to "Ready to answer requests".
\* A configuration that does not load ends the process with
\* exit(EXIT_FAILURE) before the camera is opened; so does a camera that
\* does not answer the first status check, or a link that takes no bytes.
\* A high-gain write the camera does not acknowledge is only logged; the
\* mode read back into gain_mode (initialised to 1) must be HIGHGAIN.
\* Otherwise the defaults are written and cached and the command loop
\* starts.
Startup ==
  /\ pc = "boot"
  /\ \E link \in CallResults, cam \in ReadBehaviours, gain_write \in CallResults :
       LET loaded == LoadGuiderConfiguration(guider_config)
           f2 == IF gain_write = "ok" THEN 6 ELSE cam_regs.gain_mode
           camera_ok == /\ PdvSerialWriteRead(link) = "PASS" /\ cam = "stores"
                        /\ GetGuiderGainMode(f2, 1) = HIGHGAIN
       IN /\ guide_x0' = loaded.guide_x0 /\ guide_y0' = loaded.guide_y0
          /\ null_x' = loaded.null_x /\ null_y' = loaded.null_y
          /\ last_cmd' = LastCommand("startup", NoArgument, loaded.status = "PASS", cam)
          /\ IF loaded.status # "PASS"
             THEN /\ pc' = "exited" /\ exit_code' = "failure"
                  /\ serial_sent' = <<>>
                  /\ UNCHANGED <<frame_rate, exposure_time, tec_setpoint, cam_regs>>
             ELSE IF ~camera_ok
             THEN /\ pc' = "exited" /\ exit_code' = "failure"
                  /\ serial_sent' = IF link = "fail"
                                    THEN <<CheckCameraStatusCommands[1]>>
                                    ELSE IF cam = "silent"
                                    THEN CheckCameraStatusCommands
                                    ELSE SubSeq(StartupCommands(CameraCalibration(cam_regs)), 1, 10)
                  /\ cam_regs' = IF link = "ok" /\ cam = "stores"
                                 THEN [cam_regs EXCEPT !.gain_mode = f2]
                                 ELSE cam_regs
                  /\ UNCHANGED <<frame_rate, exposure_time, tec_setpoint>>
             ELSE /\ pc' = "poll" /\ exit_code' = exit_code
                  /\ serial_sent' = StartupCommands(CameraCalibration(cam_regs))
                  /\ cam_regs' = [CameraStarted(CameraCalibration(cam_regs))
                                   EXCEPT !.gain_mode = f2]
                  /\ tec_setpoint' = DEFAULT_TEC_SETPOINT
                  /\ exposure_time' = DEFAULT_EXPOSURE_TIME
                  /\ frame_rate' = Hz(DEFAULT_FRAME_RATE)
  /\ UNCHANGED <<video_on, guide_on, isu_on, serv_done, image_width, image_height,
                 win_x0, win_y0, guide_xoff, guide_yoff,
                 isu_mrad_x_delta_setup, isu_mrad_y_delta_setup,
                 isu_mrad_x_status, isu_mrad_y_status,
                 fits_comment, frame_sequence, frame_save_count,
                 first_done_flag, pdv_p>>
  /\ UNCHANGED <<last_video_on_state, last_guide_on_state, xc, yc, thread_data>>
  /\ UNCHANGED <<cam_vars, isu_vars, fh_fits_string_null>>
  /\ UNCHANGED <<hdr, frames, moves, writes, last_null, last_roi, armed_n, armed_c, since_save>>
  /\ UNCHANGED <<guide_session, cam_size, subimage, guider_config, exp_info, exp_on, errno, reply>>

\* The exposure bookkeeping commands
NextExp ==
  \/ StartexpCmd
  \/ EndexpCmd

SpecExp == Init /\ [][NextExp]_vars

\* A guide image whose centre of mass is anywhere on the subraster
InitCentroid ==
  /\ InitState
  /\ ConfigLoaded(DefaultConfig)
  /\ cam_size = <<SIZE_X, SIZE_Y>>
  /\ cam_regs = CameraStarted(DefaultCalibration)
  /\ \E xest \in SeedsX, yest \in SeedsY :
       subimage = [NoSubimage EXCEPT !.xest = xest, !.yest = yest]

\* calculateCentroidMPFIT up to the copy of the central region
CalculateCentroidMPFIT ==
  /\ subimage.by = "none"
  /\ subimage' = SubSubraster("calculateCentroidMPFIT", subimage.xest, subimage.yest)
  /\ UNCHANGED <<serv_vars, main_vars, cam_vars, isu_vars, obs_vars,
                 fh_fits_string_null, guide_session, cam_size, codec_vars>>

\* calculatePointFWHM up to the copy of the central region
CalculatePointFWHM ==
  /\ subimage.by = "none"
  /\ subimage' = SubSubraster("calculatePointFWHM", subimage.xest, subimage.yest)
  /\ UNCHANGED <<serv_vars, main_vars, cam_vars, isu_vars, obs_vars,
                 fh_fits_string_null, guide_session, cam_size, codec_vars>>

NextCentroid ==
  \/ CalculateCentroidMPFIT
  \/ CalculatePointFWHM

SpecCentroid == InitCentroid /\ [][NextCentroid]_vars

\* The operator commands alone, the frame loop idle
NextCommands ==
  \/ VideoCmd
  \/ GuideOffCmd
  \/ GuideOnCmd
  \/ SaveCmd
  \/ NullCmd
  \/ RoiCmd
  \/ IsuOnCmd
  \/ IsuOffCmd
  \/ HomeIsuThread

SpecCommands == Init /\ [][NextCommands]_vars

\* The operator switches video and shuts the server down
NextShutdown ==
  \/ VideoCmd
  \/ ShutdownCmd
  \/ SockservRunReturns
  \/ VideoSwitchOn
  \/ StartImage
  \/ WaitImage
  \/ WriteFITSImage

SpecShutdown == Init /\ [][NextShutdown]_vars

\* The frame-rate commands, with a link that can fail in the middle of a
\* set
NextFrameRate ==
  \/ FramerateSet
  \/ FramerateSetInterrupted
  \/ FramerateQuery

SpecFrameRate == Init /\ [][NextFrameRate]_vars

\* Start-up with any configuration file, then the exposure bookkeeping
\* commands
NextBoot ==
  \/ Startup
  \/ StartexpCmd
  \/ EndexpCmd

SpecBoot == InitBoot /\ [][NextBoot]_vars

\* Each codec function called with each of its values
NextChecksum ==
  \/ CallFixedCommands
  \/ CallSetGuiderFrameRate
  \/ CallSetGuiderExptime
  \/ CallSetGuiderTECPoint
  \/ CallSetDigitalGain

SpecChecksum == Init /\ [][NextChecksum]_vars

\* The TEC commands against cameras of any manufacturing calibration
NextTec ==
  \/ TecSet
  \/ TecQuery

SpecTec == InitAnyCalibration /\ [][NextTec]_vars

\* The frame-rate and exposure commands against a camera on the serial
\* link, the frame loop idle
NextCodec ==
  \/ FramerateSet
  \/ FramerateQuery
  \/ ExptimeSet
  \/ ExptimeQuery

SpecCodec == Init /\ [][NextCodec]_vars

\* The frame loop with the ISU, ended by a fatal condition or by a signal
NextExit ==
  \/ NextIsu
  \/ TerminateSignal

SpecExit == Init /\ [][NextExit]_vars

(* ======================= properties ======================= *)

\* C1: every header built by the frame loop has the dimensions of the guide
\* mode at that time: 32 x 32 when guide_on is TRUE, 640 x 512 otherwise.
C1_HeaderSizeMatchesGuideMode ==
  hdr.built =>
    IF hdr.guide_on = TRUE
    THEN hdr.kw.NAXIS1 = GUIDE_SIZE_X /\ hdr.kw.NAXIS2 = GUIDE_SIZE_Y
    ELSE hdr.kw.NAXIS1 = SIZE_X /\ hdr.kw.NAXIS2 = SIZE_Y

\* C2: when the command poll has returned, the camera's region of interest
\* agrees with the state record: enabled at (guide_x0, guide_y0) when
\* guide_on is TRUE, disabled when it is FALSE.
C2_CameraRoiAgreesWithState ==
  pc = "polled" =>
    IF guide_on = TRUE
    THEN roi_enabled /\ roi_x0 = guide_x0 /\ roi_y0 = guide_y0
    ELSE ~roi_enabled

\* C3: each of the first n headers built after an accepted SAVE n c
\* (n >= 1), the first one included, carries ETYPE = GUIDE.
C3_SaveHeadersAreGuide ==
  (armed_n >= 1 /\ since_save \in 1 .. armed_n) => hdr.kw.ETYPE = "GUIDE"

\* C4: the k-th header built after an accepted SAVE n c (1 <= k <= n)
\* carries IMGINFO = c and SEQNUM = k.
C4_SaveHeadersCarryCommentAndSeqnum ==
  (armed_n >= 1 /\ since_save \in 1 .. armed_n) =>
    /\ hdr.kw.IMGINFO = armed_c
    /\ hdr.kw.SEQNUM = since_save

\* C5: once the n-th header of a sequence armed by SAVE n c has been built
\* the save state is reset, and header n+1 carries ETYPE = ACQUIRE, an empty
\* IMGINFO and SEQNUM = 1.
C5_SaveStateResetAfterLastHeader ==
  /\ (armed_n >= 1 /\ since_save = armed_n) =>
       (fits_comment = EmptyString /\ frame_save_count = 0 /\ frame_sequence = 0)
  /\ (armed_n >= 1 /\ since_save = armed_n + 1) =>
       (hdr.kw.ETYPE = "ACQUIRE" /\ hdr.kw.IMGINFO = EmptyString /\ hdr.kw.SEQNUM = 1)

\* C7: at most one image is in flight, at most one actuator move is
\* dispatched and at most one write is attempted per frame, and when the
\* loop is about to start the next image the previous frame has been
\* returned and written exactly once.
C7_OneFrameOneMoveOneWrite ==
  /\ in_flight \in {0, 1}
  /\ moves \in {0, 1}
  /\ writes \in {0, 1}
  /\ pc = "wait" => in_flight = 1
  /\ pc \in {"guide", "write"} => (in_flight = 0 /\ writes = 0)
  /\ (pc \in {"poll", "polled", "start"} /\ frames > 0) => (in_flight = 0 /\ writes = 1)

\* C7 witness: a second frame has been acquired, a move was dispatched for
\* it and it has been written.
C7_Witness ==
  /\ frames = 2
  /\ pc = "poll"
  /\ moves = 1
  /\ writes = 1

\* C8: a header built after an accepted NULL x y carries the new null and,
\* when guiding, offsets computed with it; a header built after an accepted
\* ROI x y carries the new GUIDE_X0 / GUIDE_Y0.
C8_CommandsVisibleToNextFrame ==
  hdr.built =>
    /\ hdr.last_null # NoPair =>
         /\ hdr.kw.NULLX = hdr.last_null[1]
         /\ hdr.kw.NULLY = hdr.last_null[2]
         /\ hdr.guide_on = TRUE =>
              /\ hdr.kw.GD_XOFF = GuideOffset(hdr.kw.GUIDE_X0, hdr.xc, hdr.last_null[1])
              /\ hdr.kw.GD_YOFF = GuideOffset(hdr.kw.GUIDE_Y0, hdr.yc, hdr.last_null[2])
    /\ hdr.last_roi # NoPair =>
         /\ hdr.kw.GUIDE_X0 = hdr.last_roi[1]
         /\ hdr.kw.GUIDE_Y0 = hdr.last_roi[2]

\* C8 witness: a guide frame has been written after an accepted NULL 150 150
\* and an accepted ROI 300 200.
C8_Witness ==
  /\ hdr.built
  /\ hdr.guide_on = TRUE
  /\ hdr.last_null = <<300, 300>>
  /\ hdr.last_roi = <<300, 200>>
  /\ hdr.kw.GD_XOFF = GuideOffset(300, hdr.xc, 300)

\* C9: isu_on does not change while a frame is processed: a guide frame
\* for which a slope move was dispatched (isu_on read TRUE) has the ISU
\* keywords in its header, and one for which none was dispatched (isu_on
\* read FALSE) has null sentinels there.
C9_IsuOnStableWithinFrame ==
  (hdr.built /\ hdr.guide_on = TRUE) =>
    ((hdr.moves = 1) <=> (hdr.isu_on = TRUE))

\* C10: the five arguments a slope worker passes to set_analog_slope are
\* the ones the frame loop computed for the frame that spawned it.
C10_SlopeArgsAreSpawnTuple ==
  slope_call.called => slope_call.passed = slope_call.computed

\* C11: ISU ON on a homed mechanism calls enable and replies ". ON" with
\* isu_on TRUE, or replies a failure with isu_on unchanged; on a mechanism
\* that is not homed, or whose homed check fails, it spawns one homing
\* worker and replies ". ON" while isu_on is still FALSE, and isu_on then
\* becomes TRUE exactly when homing succeeds.  ISU OFF sets isu_on FALSE
\* exactly when stop_isu succeeds.
C11_IsuCommandEffects ==
  [][ /\ IsuOnCmd =>
           \/ pc' = "exited"
           \/ homing' = homing + 1 /\ reply' = ". ON" /\ isu_on' = FALSE
           \/ homing' = homing /\ isu_homed /\ reply' = ". ON" /\ isu_on' = TRUE
           \/ homing' = homing /\ isu_homed /\ reply' = "! OFF" /\ isu_on' = isu_on
      /\ (HomeIsuThread /\ ~isu_homed) => (isu_on' = isu_homed')
      /\ IsuOffCmd =>
           \/ reply' = ". OFF" /\ isu_on' = FALSE
           \/ reply' = "! OFF" /\ isu_on' = isu_on
    ]_vars

\* C12: a slope move is dispatched for a frame exactly when video_on,
\* guide_on and isu_on are all TRUE when the frame is processed, with the
\* arguments (rate, last_x, last_y, last_x - delta_x, last_y - delta_y):
\* last is the position read in that frame, delta the setup delta of that
\* frame's centroid, rate is frame_rate, or 50 Hz when frame_rate is 0.
C12_SlopeDispatch ==
  [][ /\ (StartImage \/ GuideFrame) => video_on = TRUE
      /\ GuideFrame => guide_on = TRUE
      /\ (GuideFrame /\ pc' = "write") =>
           /\ (moves' = moves + 1) <=> (isu_on = TRUE)
           /\ (slope_workers' # slope_workers) <=> (isu_on = TRUE)
           /\ isu_mrad_x_delta_setup' =
                SetupToTrue(ArcsecToMrad(GuideOffset(guide_x0, xc', null_x)))
           /\ isu_mrad_y_delta_setup' =
                SetupToTrue(ArcsecToMrad(GuideOffset(guide_y0, yc', null_y)))
           /\ isu_on = TRUE =>
                /\ thread_data' =
                     <<IF frame_rate = Hz(0) THEN Hz(DEFAULT_FRAME_RATE) ELSE frame_rate,
                       isu_mrad_x_status', isu_mrad_y_status',
                       isu_mrad_x_status' - isu_mrad_x_delta_setup',
                       isu_mrad_y_status' - isu_mrad_y_delta_setup'>>
                /\ [frame |-> frames, computed |-> thread_data'] \in slope_workers'
      /\ (WaitImage /\ pc' = "write") =>
           (guide_on = FALSE /\ moves' = moves /\ slope_workers' = slope_workers)
    ]_vars

\* C12 witness: a move has been dispatched while the cached frame rate is 0,
\* with 50 Hz as its rate and a target that differs from the position read.
C12_Witness ==
  /\ pc = "write"
  /\ moves = 1
  /\ frame_rate = Hz(0)
  /\ thread_data[1] = Hz(DEFAULT_FRAME_RATE)
  /\ thread_data[4] # thread_data[2]
  /\ [frame |-> frames, computed |-> thread_data] \in slope_workers

\* C13: in every guide session the FWHM entry point and the ISU fault
\* check run on the first frame processed and on no later one, and the
\* centroid entry point runs on every frame of the session, also when
\* video is switched off and on again inside the session.
C13_FwhmOncePerSession ==
  pc # "exited" =>
    /\ guide_session.fwhm = (IF guide_session.frames >= 1 THEN 1 ELSE 0)
    /\ guide_session.centroid = guide_session.frames

\* C13 witness: the second frame of a guide session that started after an
\* unguided frame has been processed; FWHM ran once, the centroid twice.
C13_Witness ==
  /\ pc = "write"
  /\ guide_on = TRUE
  /\ frames = 3
  /\ guide_session.frames = 2 /\ guide_session.fwhm = 1 /\ guide_session.centroid = 2

C15_ExitStatus ==
  [][ /\ (TerminateSignal /\ pc' = "exited") => exit_code' = "success"
      /\ ((IsuOnCmd \/ GuideFrame) /\ pc' = "exited") => exit_code' # "success"
    ]_vars

\* C16: guide_on goes from FALSE to TRUE only inside a GUIDE ON whose
\* set-ROI and enable-ROI calls both succeeded, and from TRUE to FALSE only
\* inside a GUIDE OFF whose disable-ROI call succeeded and which clears
\* first_done_flag; first_done_flag is 0 whenever guide_on is FALSE.
C16_GuideTransitions ==
  /\ [][ /\ (guide_on = FALSE /\ guide_on' = TRUE) =>
              /\ GuideOnCmd
              /\ roi_enabled' /\ roi_x0' = guide_x0 /\ roi_y0' = guide_y0
              /\ reply' = ". GUIDE ON"
         /\ (guide_on = TRUE /\ guide_on' = FALSE) =>
              /\ GuideOffCmd
              /\ ~roi_enabled'
              /\ first_done_flag' = 0
              /\ reply' = ". GUIDE OFF"
       ]_vars
  /\ [](guide_on = FALSE => first_done_flag = 0)

\* C16 witness: GUIDE OFF has just ended a guide session in which a frame
\* was processed.
C16_Witness ==
  /\ guide_on = FALSE
  /\ reply = ". GUIDE OFF"
  /\ guide_session.frames >= 1
  /\ first_done_flag = 0
  /\ ~roi_enabled

\* C17: the mode flags follow IDLE -> VIDEO_ON -> (GUIDE_ON <-> VIDEO_ON)
\* -> IDLE: guide_on becomes TRUE only while video_on is TRUE, video_on
\* becomes FALSE only while guide_on is FALSE, and no reachable state has
\* guide_on TRUE with video_on FALSE.
C17_ModeStateMachine ==
  /\ [][ /\ (guide_on = FALSE /\ guide_on' = TRUE) => video_on = TRUE
         /\ (video_on = TRUE /\ video_on' = FALSE) => guide_on = FALSE
       ]_vars
  /\ [](~(guide_on = TRUE /\ video_on = FALSE))

\* C18: when a step of the video switch-on sequence fails, video_on is
\* dropped in that iteration and the iteration ends without acquiring; an
\* image is started only with video on and the switch-on sequence passed;
\* and every VIDEO ON that turns video on again, after a failure or after
\* a VIDEO OFF, finds the loop about to run the switch-on sequence.
C18_RisingEdgeRetry ==
  [][ /\ (VideoSwitchOn /\ last_video_on_state = FALSE /\ video_on = TRUE /\ pc' # "start") =>
            (video_on' = FALSE /\ pc' = "poll" /\ frames' = frames)
      /\ StartImage => (video_on = TRUE /\ last_video_on_state = TRUE)
      /\ (VideoCmd /\ video_on = FALSE /\ video_on' = TRUE) =>
            last_video_on_state = FALSE
    ]_vars

\* The operator only switches video on and off, on a camera with any
\* configuration.
NextVideo ==
  \/ VideoCmd
  \/ SockservRunReturns
  \/ VideoSwitchOn
  \/ StartImage
  \/ WaitImage
  \/ WriteFITSImage

SpecVideo == InitAnyCamera /\ [][NextVideo]_vars

\* C19: on the switch-on of video an image size of 1 or less is rejected:
\* when the width read from the camera is <= 1 or the height read is <= 1,
\* video_on is dropped and the iteration ends without acquiring a frame.
C19_DegenerateSizeRejected ==
  [][ /\ (/\ VideoSwitchOn
          /\ last_video_on_state = FALSE /\ video_on = TRUE
          /\ (image_width' <= 1 \/ image_height' <= 1)) =>
            (video_on' = FALSE /\ pc' = "poll")
      /\ StartImage => (image_width > 1 /\ image_height > 1)
    ]_vars

\* The operator switches video and guiding on and moves the guide raster
\* and the null position, after any accepted guider configuration file.
SpecConfig == InitAnyConfig /\ [][NextNull]_vars

\* C20: after a successful configuration load, under any sequence of
\* accepted or rejected ROI and NULL commands, 0 <= guide_x0 <= 608,
\* 0 <= guide_y0 <= 480, 0 <= null_x <= 640 and 0 <= null_y <= 512
\* (null positions in half pixels).
C20_PositionsInRange ==
  /\ 0 <= guide_x0 /\ guide_x0 <= 608
  /\ 0 <= guide_y0 /\ guide_y0 <= 480
  /\ 0 <= null_x /\ null_x <= 2 * 640
  /\ 0 <= null_y /\ null_y <= 2 * 512

\* C21: in every state after initialisation the cached frame rate lies in
\* (0, 120] Hz with a period of at most 20000 ms and the cached exposure
\* time is above 0, whatever FRAMERATE and EXPTIME sets and queries are
\* issued.
C21_CachedValuesInRange ==
  /\ ~RateIsZero(frame_rate)
  /\ RateAtMost(frame_rate, 120)
  /\ ~PeriodTooLong(frame_rate)
  /\ exposure_time > 0

\* C22: a FRAMERATE argument r with r <= 0, r > 120 or 1000/r > 20000 is
\* answered ! FRAMERATE "Frame Rate Specified is Invalid", no byte goes to
\* the camera and the state record with frame_rate is left unchanged.
C22_InvalidRateRejected ==
  [][ (/\ FramerateSet
       /\ last_cmd'.name = "FRAMERATE"
       /\ last_cmd'.arg.kind \in {"num", "overflow"}
       /\ FrameRateInvalid(last_cmd'.arg.value))
      => /\ reply' = "! FRAMERATE \"Frame Rate Specified is Invalid\""
         /\ serial_sent' = <<>>
         /\ UNCHANGED <<serv_vars, exposure_time, tec_setpoint, exp_on, cam_regs>>
    ]_vars

\* C23: when the camera does not echo a register write, or gives no reply
\* before the serial timeout, the operator command FRAMERATE or EXPTIME
\* that reached the codec is answered with a line beginning with ! and the
\* cached values are not updated.
C23_CameraFailureReported ==
  [][ (/\ FramerateSet \/ ExptimeSet
       /\ last_cmd'.camera \in {"rejects", "silent"})
      => /\ reply' \in {"! FRAMERATE \"Unable to set frame rate in the camera\"",
                        "! FRAMERATE \"Unable to read frame rate in the camera\"",
                        "! EXPTIME \"Unable to set exposure time in the camera\""}
         /\ UNCHANGED <<frame_rate, exposure_time>>
    ]_vars

\* C24: for a frame rate r in (0, 120] the four value bytes that
\* setGuiderFrameRate writes to registers dd, de, df, e0, most significant
\* first, are those of floor(4e9 / (r * 100)), also when r * 100 is not a
\* whole number (r in mHz: floor(4e10 / r), 4e10 being 09 50 2f 90 00).
C24_CountWritten ==
  [][ (FramerateSet /\ last_cmd'.camera # Unreached)
      => LET r == last_cmd'.arg.value
             writes_sent == SubSeq(serial_sent', 3, 6)
         IN /\ <<writes_sent[1][4], writes_sent[2][4],
                 writes_sent[3][4], writes_sent[4][4]>> = <<221, 222, 223, 224>>
            /\ <<0, writes_sent[1][5], writes_sent[2][5],
                 writes_sent[3][5], writes_sent[4][5]>>
                 = LongDiv(<<9, 80, 47, 144, 0>>, r, 0)
    ]_vars

\* C25: for a rate r that FRAMERATE accepts (0.05 <= r <= 120) and a camera
\* that stores what is written, setGuiderFrameRate(r) followed by
\* getGuiderFrameRate gives a rate within 1% of r; a FRAMERATE query after
\* start-up reads 50.
C25_RateRoundTrip ==
  [][ /\ (FramerateSet /\ last_cmd'.camera = "stores")
           => LET r == last_cmd'.arg.value
              IN /\ reply' = ". FRAMERATE"
                 /\ FracLeq(99 * r, 100000, frame_rate'[1], frame_rate'[2])
                 /\ FracLeq(frame_rate'[1], frame_rate'[2], 101 * r, 100000)
      /\ (FramerateQuery /\ last_cmd = NoCommand /\ last_cmd'.camera = "stores")
           => frame_rate' = Hz(50)
    ]_vars

\* C26: for an exposure time e > 0 that EXPTIME accepts and a camera that
\* stores what is written, the count getGuiderExptime reads from registers
\* ee..f1 is the count floor(e * 40000) passed to setGuiderExptime, and
\* the cached exposure_time is that count / 40000.
C26_ExptimeRoundTrip ==
  [][ (ExptimeSet /\ last_cmd'.camera = "stores")
      => LET e == last_cmd'.arg.value
         IN /\ reply' = ". EXPTIME"
            /\ cam_regs'.exp_count = e \div 10
            /\ \A read \in ReadOutcomes("stores", cam_regs'.exp_count) :
                 /\ ~read.aborted
                 /\ read.value = e \div 10
                 /\ exposure_time' = ExptimeOfCount(read.value)
    ]_vars

\* C27: for a calibration with DAC@40C > DAC@0C and a set point t whose
\* count fits in 16 bits, with a camera that stores what is written,
\* setGuiderTECPoint(t) followed by getGuiderTECPoint gives a temperature
\* within 0.1 C of t quantised to one DAC step on the line through
\* (0 C, DAC@0C) and (40 C, DAC@40C).
C27_TecRoundTrip ==
  [][ (/\ TecQuery
       /\ last_cmd.name = "TEC" /\ last_cmd.camera = "stores"
       /\ last_cmd'.camera = "stores")
      => LET t == last_cmd.arg.value
             span == cam_regs.dac40 - cam_regs.dac0
             step == (t * span + 40000 * cam_regs.dac0) \div 40000
             quantised == (40000 * (step - cam_regs.dac0)) \div span
         IN /\ tec_setpoint' - quantised <= 100
            /\ quantised - tec_setpoint' <= 100
    ]_vars

\* C28: every command sent to the camera that starts with 0x53 ends with
\* the XOR of all the bytes before it: the hard-coded writes, reads and
\* manufacturing-block commands, and the writes built at run time by the
\* frame-rate, exposure, TEC and digital-gain setters for each value byte.
C28_ChecksumLaw ==
  \A i \in 1 .. Len(serial_sent) :
    LET command == serial_sent[i]
    IN command[1] = 83 =>
         command[Len(command)] = XorAll(SubSeq(command, 1, Len(command) - 1))

\* setGuiderExptime has written ff to register f1: 53 e0 02 f1 ff 50 ef
C28_Witness ==
  /\ last_cmd.name = "setGuiderExptime"
  /\ serial_sent[4] = <<83, 224, 2, 241, 255, 80, 239>>

\* C29: STARTEXP is answered . STARTEXP with exp_on set exactly when a
\* FILENAME= argument is present, every argument is one of FILENAME=, RA=,
\* DEC=, EQUINOX=, OBJMAG= and the EQUINOX and OBJMAG values are valid
\* floats; otherwise the reply begins with ! and exp_on is left as it was.
\* ENDEXP always clears exp_on.
C29_StartexpAccepts ==
  [][ /\ StartexpCmd =>
           LET args == exp_info'.cargv
               keys == {ArgKey(args[i]) : i \in 1 .. Len(args)}
               valid == /\ "filename" \in keys
                        /\ "unsupported" \notin keys
                        /\ \A i \in 1 .. Len(args) :
                             ArgKey(args[i]) \in {"equinox", "objmag"}
                               => DecimalFloat(ArgValue(args[i]))
           IN IF valid
              THEN reply' = ". STARTEXP" /\ exp_on'
              ELSE /\ reply' \in {"! STARTEXP \"Filename argument is mandatory\"",
                                  "! STARTEXP \"float equinox argument expected\"",
                                  "! STARTEXP \"float objmag argument expected\"",
                                  "! STARTEXP \"argument is unsupported\""}
                   /\ exp_on' = exp_on
      /\ EndexpCmd => ~exp_on'
    ]_vars

\* C30: start-up reaches the command loop only if the configuration file
\* supplied all four keys with parsable values in range (guide_x0 in
\* 0 .. SIZE_X - GUIDE_SIZE_X, guide_y0 in 0 .. SIZE_Y - GUIDE_SIZE_Y,
\* null_x in 0 .. SIZE_X, null_y in 0 .. SIZE_Y); with a missing key, an
\* unparsable value or a value out of range the process exits with a
\* failure before anything is sent to the camera, hence before the
\* listening socket is created; a file that is valid in this sense loads
\* whatever other lines it holds.
C30_StartupNeedsValidConfig ==
  [][Startup =>
       LET cfg == guider_config
           valid == /\ cfg.present = ConfigKeys
                    /\ cfg.empty = {} /\ cfg.garbled = {}
                    /\ cfg.guide_x0 \in 0 .. (SIZE_X - GUIDE_SIZE_X)
                    /\ cfg.guide_y0 \in 0 .. (SIZE_Y - GUIDE_SIZE_Y)
                    /\ cfg.null_x \in 0 .. (2 * SIZE_X)
                    /\ cfg.null_y \in 0 .. (2 * SIZE_Y)
       IN /\ (pc' = "poll" => valid)
          /\ (~valid => /\ pc' = "exited" /\ exit_code' = "failure"
                        /\ serial_sent' = <<>>)
          /\ (valid => last_cmd'.camera # Unreached)]_vars

\* C31: every operator command is answered with one reply line whose
\* first character is "." or "!", and a "." reply holds the name of the
\* command it answers (GUIDE, SAVE, ROI, NULL, VIDEO, ISU).
C31_ReplyNamesCommand ==
  [][\A cmd \in {"VIDEO", "GUIDE", "SAVE", "NULL", "ROI", "ISU"} :
       LET handled == CASE cmd = "VIDEO" -> VideoCmd
                        [] cmd = "GUIDE" -> GuideOnCmd \/ GuideOffCmd
                        [] cmd = "SAVE" -> SaveCmd
                        [] cmd = "NULL" -> NullCmd
                        [] cmd = "ROI" -> RoiCmd
                        [] cmd = "ISU" -> IsuOnCmd \/ IsuOffCmd
       IN (handled /\ pc' = "poll") =>
            /\ reply' \in DOMAIN ReplyLine
            /\ ReplyLine[reply'][1] \in {".", "!"}
            /\ ReplyLine[reply'][1] = "." =>
                 \E i \in 2 .. Len(ReplyLine[reply']) : ReplyLine[reply'][i] = cmd]_vars

\* C32: a GUIDE ON, GUIDE OFF or ROI command answered with "!" because a
\* camera ROI call failed leaves guide_on, image_width, image_height,
\* win_x0, win_y0, guide_x0 and guide_y0 as they were.
C32_FailedRoiCallLeavesState ==
  [][((GuideOnCmd \/ GuideOffCmd \/ RoiCmd)
        /\ reply' \in {"! GUIDE unable to reset image ROI",
                       "! GUIDE unable to set image ROI",
                       "! GUIDE set ROI failed",
                       "! ROI unable to set image ROI",
                       "! ROI set ROI failed"})
       => UNCHANGED <<guide_on, image_width, image_height, win_x0, win_y0,
                      guide_x0, guide_y0>>]_vars

\* C33: once ISU OFF has been answered ". OFF", isu_on is FALSE and no
\* slope move is dispatched until the next ISU ON, whatever a homing worker
\* started by an earlier ISU ON does.  With video on, ". OFF" is the
\* standing reply only while ISU OFF is the last command answered.
C33_IsuStaysOff ==
  [][(reply = ". OFF" /\ video_on)
       => /\ ~isu_on
          /\ (reply' = reply) => (~isu_on' /\ slope_workers' \subseteq slope_workers)]_vars

\* C34: at most one homing worker exists at any time: an ISU ON received
\* while a worker started by an earlier ISU ON is still running starts no
\* second one.
C34_OneHomingWorker == homing <= 1

\* C35: once SHUTDOWN has set the server-done flag the frame loop stops
\* when the iteration in progress finishes: the main thread does not come
\* back to the poll at the top of the loop.
C35_LoopStopsAfterShutdown ==
  [][(serv_done /\ pc # "poll") => pc' # "poll"]_vars

\* C36: the cached frame_rate, which is written to the FRMRATE keyword,
\* equals the rate decoded from the camera's frame-rate registers after
\* any sequence of FRAMERATE sets and queries, a set that failed after
\* some of its four register writes included.
C36_CachedRateIsCameraRate ==
  (pc # "exited" /\ last_cmd.camera # "silent")
    => frame_rate = GuiderFrameRate(cam_regs.frame_count)

\* C37: while guide_on is TRUE the window origin equals the guide
\* subraster origin (win_x0 = guide_x0, win_y0 = guide_y0), and while it
\* is FALSE the window origin is (0, 0).
C37_WindowFollowsGuide ==
  /\ guide_on => (win_x0 = guide_x0 /\ win_y0 = guide_y0)
  /\ ~guide_on => (win_x0 = 0 /\ win_y0 = 0)

\* C38: a STARTEXP answered with "!" (no FILENAME=, an unsupported key, or
\* an EQUINOX or OBJMAG that is no float) leaves filename, ra, dec,
\* equinox, objmag and exp_on as they were before the command.
C38_FailedStartexpLeavesTags ==
  [][(StartexpCmd /\ reply' \in {"! STARTEXP \"Filename argument is mandatory\"",
                                 "! STARTEXP \"float equinox argument expected\"",
                                 "! STARTEXP \"float objmag argument expected\"",
                                 "! STARTEXP \"argument is unsupported\""})
       => /\ exp_on' = exp_on
          /\ exp_info'.filename = exp_info.filename
          /\ exp_info'.ra = exp_info.ra /\ exp_info'.dec = exp_info.dec
          /\ exp_info'.equinox = exp_info.equinox
          /\ exp_info'.objmag = exp_info.objmag]_vars

\* C39: start-up reaches the command loop only with the camera's gain-mode
\* register f2 reading 6 (high gain); with any other value in the register,
\* which the camera can only hold after the high-gain write failed, the
\* process exits with failure and never polls.
C39_LoopOnlyInHighGain ==
  [][(Startup /\ pc' = "poll") => cam_regs'.gain_mode = 6]_vars

\* C40: for every seed on the 32x32 subraster, the region cut out by
\* calculateCentroidMPFIT and by calculatePointFWHM lies inside the
\* subraster: every pixel (i, j) read has 0 <= i, j <= 31, and the width
\* and height of the region are between 1 and 16.
C40_SubSubrasterInsideSubraster ==
  subimage.by # "none" =>
    /\ \A px \in PixelsRead(subimage) :
         /\ px[1] \in 0 .. GUIDE_SIZE_X - 1
         /\ px[2] \in 0 .. GUIDE_SIZE_Y - 1
    /\ subimage.subx \in 1 .. GUIDE_SIZE_X \div 2
    /\ subimage.suby \in 1 .. GUIDE_SIZE_Y \div 2

====
